---- MODULE Spec2Model ----
(***************************************************************************)
(* The catalog subsystem of nxt-opds: the filesystem ("fs", in-memory      *)
(* index plus .metadata.json overrides) backend and the SQLite backend,     *)
(* their Refresh / StoreBook / UpdateBook / DeleteBook operations and the   *)
(* read operations, over a small library root.                              *)
(*                                                                          *)
(* A behaviour fixes one backend at construction (variable backend); the    *)
(* state of the other backend stays empty.  Refresh and StoreBook are       *)
(* multi-step processes that interleave with every other operation;         *)
(* UpdateBook and DeleteBook of the fs backend run under b.mu.Lock() and    *)
(* are single steps.                                                        *)
(***************************************************************************)
EXTENDS Integers, Sequences, FiniteSets, TLC

\* ------------------------------------------------------------------------
\* Bounds
\* ------------------------------------------------------------------------

\* Number of operations (update, delete, upload, refresh, outside removal)
\* a behaviour may begin.
MaxOps == 3

\* ------------------------------------------------------------------------
\* Strings: the model's strings with their bytes, so that ToLower and the
\* byte-wise / case-insensitive comparisons are computed, not assumed.
\* ------------------------------------------------------------------------

Code(s) ==
  CASE s = ""  -> <<>>
    [] s = "A" -> <<65>>
    [] s = "Z" -> <<90>>
    [] s = "b" -> <<98>>
    [] s = "c" -> <<99>>
    [] s = "s" -> <<115>>
    [] s = "t" -> <<116>>
    [] s = "x" -> <<120>>
    [] s = "y" -> <<121>>
    [] s = "z" -> <<122>>

ToLower(c) == [i \in DOMAIN c |-> IF c[i] >= 65 /\ c[i] <= 90 THEN c[i] + 32 ELSE c[i]]

\* Go's / SQLite's string "<" on byte sequences.
BytesLess(a, b) ==
  \E k \in 0..Len(a) :
     /\ k <= Len(b)
     /\ \A i \in 1..k : a[i] = b[i]
     /\ \/ (k = Len(a) /\ k < Len(b))
        \/ (k < Len(a) /\ k < Len(b) /\ a[k+1] < b[k+1])

StrLess(s, t) == BytesLess(Code(s), Code(t))
LowerLess(s, t) == BytesLess(ToLower(Code(s)), ToLower(Code(t)))

\* Optional values: a nil pointer / nil slice is None, a non-nil one Some(v).
None == <<>>
Some(v) == <<v>>
Present(o) == o # <<>>
Val(o) == o[1]

\* ------------------------------------------------------------------------
\* The library root
\* ------------------------------------------------------------------------

Paths == {"a.epub", "b.epub", "c.pdf"}

\* filepath.WalkDir visits the entries of a directory in lexical order.
WalkOrder == <<"a.epub", "b.epub", "c.pdf">>

Absent == -1

PathToID(p) ==
  CASE p = "a.epub" -> "id_a"
    [] p = "b.epub" -> "id_b"
    [] p = "c.pdf"  -> "id_c"

IDs == {PathToID(p) : p \in Paths}
IdOrder == <<"id_a", "id_b", "id_c">>
PathOf(id) == CHOOSE p \in Paths : PathToID(p) = id

Names == {"x", "y", "z"}
TagNames == {"s", "t"}

IsEpub(p) == p \in {"a.epub", "b.epub"}

\* The OPF metadata inside each EPUB of the library (dc:title, dc:creator,
\* dc:subject); the content of a file is a function of its name.  No EPUB
\* of the library has a cover item or an image in its first spine document:
\* extractCoverFromPkg writes nothing and CoverURL stays empty.
Opf(p) ==
  CASE p = "a.epub" -> [title |-> "b", creators |-> <<"x">>, subjects |-> <<"s">>]
    [] p = "b.epub" -> [title |-> "A", creators |-> <<"y", "x">>, subjects |-> <<>>]

Stem(p) == CASE p = "c.pdf" -> "c" [] p = "a.epub" -> "a" [] p = "b.epub" -> "b"

\* The files of the library root whose bytes are not a readable EPUB
\* container (zip.OpenReader or the OPF decoding fails on them).
VARIABLE corrupt

NoBook ==
  [id |-> "", path |-> "", title |-> "", authors |-> <<>>, tags |-> <<>>,
   isRead |-> FALSE, rating |-> 0, addedAt |-> 0, updatedAt |-> 0,
   coverURL |-> "", thumbnailURL |-> ""]

\* epub.ParseBook: fails when the file cannot be opened or is not a readable
\* EPUB; AddedAt is the file's modification time, UpdatedAt is time.Now() (t).
ParseBook(p, mtime, t) ==
  IF mtime = Absent \/ p \in corrupt THEN None
  ELSE Some([id |-> PathToID(p), path |-> p, title |-> Opf(p).title,
             authors |-> Opf(p).creators, tags |-> Opf(p).subjects,
             isRead |-> FALSE, rating |-> 0, addedAt |-> mtime, updatedAt |-> t,
             coverURL |-> "", thumbnailURL |-> ""])

\* epub.ParsePath: never fails; a file that cannot be stat'ed gets
\* AddedAt = time.Now().
ParsePath(p, mtime, t) ==
  Some([id |-> PathToID(p), path |-> p, title |-> Stem(p),
        authors |-> <<>>, tags |-> <<>>, isRead |-> FALSE, rating |-> 0,
        addedAt |-> IF mtime = Absent THEN t ELSE mtime, updatedAt |-> t,
        coverURL |-> "", thumbnailURL |-> ""])

\* The switch on the extension in Refresh and StoreBook.
Parse(p, mtime, t) == IF IsEpub(p) THEN ParseBook(p, mtime, t) ELSE ParsePath(p, mtime, t)

\* ------------------------------------------------------------------------
\* Inputs of UpdateBook (catalog.BookUpdate)
\* ------------------------------------------------------------------------

Updates ==
  { [title |-> Some("Z"), authors |-> None, tags |-> None,
     isRead |-> None, rating |-> None],
    [title |-> Some(""), authors |-> Some(<<>>), tags |-> Some(<<"t">>),
     isRead |-> Some(TRUE), rating |-> None],
    [title |-> None, authors |-> Some(<<"z", "x">>), tags |-> Some(<<>>),
     isRead |-> None, rating |-> Some(4)] }

NoUpdate == [title |-> None, authors |-> None, tags |-> None, isRead |-> None, rating |-> None]

\* ------------------------------------------------------------------------
\* Generic helpers
\* ------------------------------------------------------------------------

Get(m, k) == IF k \in DOMAIN m THEN m[k] ELSE <<>>
Put(m, k, v) == [x \in DOMAIN m \cup {k} |-> IF x = k THEN v ELSE m[x]]
Drop(m, k) == [x \in DOMAIN m \ {k} |-> m[x]]
EmptyMap == [x \in {} |-> <<>>]

Range(s) == {s[i] : i \in DOMAIN s}

\* the sequences that list every element of S once
Perms(S) ==
  {l \in [1..Cardinality(S) -> S] : \A i, j \in 1..Cardinality(S) : l[i] = l[j] => i = j}

\* b occurs in a as a contiguous run of bytes
Contains(a, b) ==
  \E k \in 0..(Len(a) - Len(b)) : \A i \in 1..Len(b) : a[k + i] = b[i]

\* the subsequence of s whose elements are in set S
SelectSeqBy(s, S) ==
  LET In(x) == x \in S
  IN SelectSeq(s, In)

\* sort.Slice(books, AddedAt.After): newest first, nothing else compared.
AddedAfter(x, y) == x.addedAt > y.addedAt

\* ORDER BY added_at DESC, LOWER(title)
DefaultLess(x, y) ==
  \/ x.addedAt > y.addedAt
  \/ (x.addedAt = y.addedAt /\ LowerLess(x.title, y.title))

\* ORDER BY LOWER(b.title)
TitleLess(x, y) == LowerLess(x.title, y.title)

\* ORDER BY LOWER(b.title) DESC
TitleGreater(x, y) == LowerLess(y.title, x.title)

\* sort.Slice(matched, AddedAt.Before)
AddedBefore(x, y) == x.addedAt < y.addedAt

\* ORDER BY b.added_at ASC, LOWER(b.title)
AddedAscLess(x, y) ==
  \/ x.addedAt < y.addedAt
  \/ (x.addedAt = y.addedAt /\ LowerLess(x.title, y.title))

\* The orders the backends sort books by.
BookLess(by, x, y) ==
  CASE by = "added" -> AddedAfter(x, y)
    [] by = "default" -> DefaultLess(x, y)
    [] by = "title" -> TitleLess(x, y)
    [] by = "titleDesc" -> TitleGreater(x, y)
    [] by = "addedAsc" -> AddedBefore(x, y)
    [] by = "addedAscTitle" -> AddedAscLess(x, y)

\* One insertion step of Go's insertionSort (sort.Slice on fewer than 12
\* elements): x moves left while it is less than its left neighbour.
Insert(sorted, x, by) ==
  LET stop == {j \in 1..Len(sorted) : ~BookLess(by, x, sorted[j])}
      k == IF stop = {} THEN 0 ELSE CHOOSE j \in stop : \A i \in stop : i <= j
  IN SubSeq(sorted, 1, k) \o <<x>> \o SubSeq(sorted, k + 1, Len(sorted))

\* insertionSort: the elements are inserted one by one, left to right.  A
\* stable sort, which is also how the rows of an ORDER BY come out here.
InsSort(s, by) ==
  LET Run(v) ==
        LET F[i \in 0..Len(v)] ==
              IF i = 0 THEN <<>>
              ELSE CHOOSE r \in {Insert(done, v[i], by) : done \in {F[i-1]}} : TRUE
        IN F[Len(v)]
  IN CHOOSE r \in {Run(v) : v \in {s}} : TRUE

\* ------------------------------------------------------------------------
\* State
\* ------------------------------------------------------------------------

VARIABLES
  backend,      \* "fs" or "sqlite": which backend main() constructed
  disk,         \* library root: path -> modification time, Absent if no file
  ops,          \* operations begun so far
  now,          \* the wall clock (time.Now(), file modification times)
  \* fs.Backend
  heap,         \* the backing arrays of []catalog.Book still referenced;
                \* heap[1] backs b.books
  blen,         \* len(b.books)
  byID,         \* b.byID: id -> pointer [arr, idx] into heap
  authors,      \* b.authors: author name -> sequence of ids
  tags,         \* b.tags: tag -> sequence of ids
  overrides,    \* b.overrides: id -> metaOverride
  metadataFile, \* content of .metadata.json
  \* sqlite.Backend
  tBooks,       \* table books: id -> row
  tAuthors,     \* table book_authors: rows [book, name, pos]
  tTags,        \* table book_tags: rows [book, tag]
  \* a running Refresh
  rfPc, rfBooks, rfOnDisk, rfInDB,
  \* a running StoreBook: position, destination, the stream it was given
  \* ("good", "bad": complete but not a readable EPUB, "broken": the
  \* stream fails before its end), the error of the last call that returned
  upPc, upPath, upData, upErr,
  tmpFiles,     \* the .upload-*.tmp files in the library root
  \* the covers directory: files [id, ext, data] named id+ext
  covers,
  \* the running UpdateCover calls (caller -> its arguments once the old
  \* files are removed, None before and after) and the arguments of the
  \* call that returned last
  ucPc, ucLast,
  \* the backup directory (names of its entries), the wall clock of the
  \* backups (index into BkStamps), and the Backup call that returned in
  \* the last step
  bdir, bkClock, bkRet,
  \* the store file .catalog.db: PRAGMA user_version, the columns of table
  \* books ({} when there is no table), the number of times migration1 was
  \* applied, where New is ("closed": no Backend, "migrated": migrateSchema
  \* has returned, "open": New has returned), and the store as the last
  \* migrateSchema that applied a migration found it
  userVersion, columns, applied, dbPc, mgFrom,
  \* the HTTP server: Options.Password, sessionStore.tokens (token ->
  \* expiry), the clock of the sessions, the number of tokens created, the
  \* tokens that were valid when /logout was called with them, and the
  \* request answered in the last step
  password, tokens, seClock, issued, loggedOut, seRet,
  \* fs.Backend.mu, the sync.RWMutex: the call holding it in exclusive mode
  \* ("" if none) and the calls holding it in shared mode
  mu,
  \* Refresh's local `overrides`: TRUE once it holds the header of b.overrides
  rfOv,
  \* sqlite: the statement at which the transaction of the last step failed
  \* (the COMMIT counted as the last one), 0 if none did
  txFailed,
  \* .metadata.json: how much of the document of metadataFile the last
  \* os.WriteFile had written when it ended ("all", or "none" / "part" when
  \* the process stopped in it), and the document it replaced
  mfBytes, mfPrev,
  \* sqlite: the db.Exec that failed in the last migrateSchema ("none" if
  \* none did)
  mgFault,
  \* runNightlyBackup: the wall clock in ticks (DayLen a day, midnight at
  \* the multiples of DayLen), where the loop is ("top" of the loop body,
  \* "sleep": in time.Sleep), the midnight it sleeps until, how long that
  \* sleep is, and the Backup calls it has made (the tick of each, whether
  \* it failed)
  wall, nbPc, nbNext, nbSlept, nbCalls,
  \* StoreBook called by two requests at once: where each call is, its
  \* destination and stream, what it returned, and whose bytes each file of
  \* the library root holds (0: no upload's)
  cuPc, cuPath, cuData, cuRet, destBy,
  \* sqlite UpdateBook called by two requests at once: where each call is,
  \* its arguments with the book it read and changed, and what it returned
  cbPc, cbArg, cbRet,
  \* the call that returned in the last step
  ret,
  \* history variables used to state the properties
  lastWrite, upDuringRf, rfConc, rfBefore, lastObs, prevObs,
  \* the books whose upload returned while the pass before the running (or
  \* last) one was under way
  upEarlier

fsVars == <<heap, blen, byID, authors, tags, overrides, metadataFile>>
sqlVars == <<tBooks, tAuthors, tTags>>
rfVars == <<rfPc, rfBooks, rfOnDisk, rfInDB>>
upVars == <<upPc, upPath, upData, upErr, tmpFiles>>
coverVars == <<covers, ucPc, ucLast>>
bkVars == <<bdir, bkClock, bkRet>>
mgVars == <<userVersion, columns, applied, dbPc, mgFrom>>
seVars == <<password, tokens, seClock, issued, loggedOut, seRet>>
nbVars == <<wall, nbPc, nbNext, nbSlept, nbCalls>>
cuVars == <<cuPc, cuPath, cuData, cuRet, destBy>>
cbVars == <<cbPc, cbArg, cbRet>>
concVars == <<mu, rfOv, txFailed, mfBytes, mfPrev, mgFault, nbVars, cuVars, cbVars>>
histVars == <<lastWrite, upDuringRf, rfConc, rfBefore, lastObs, prevObs, upEarlier>>
vars == <<backend, disk, corrupt, now, ops, fsVars, sqlVars, rfVars, upVars, coverVars,
          bkVars, mgVars, seVars, concVars, ret, histVars>>

\* sync.RWMutex, zero value: held by no one.
Unlocked == [w |-> "", r |-> {}]

\* A step that reads the clock finds it later than the step before.
Tick == now' = now + 1
Still == now' = now

\* Runs are cut after MaxOps operations have begun.
Spend == ops < MaxOps /\ ops' = ops + 1
Keep == ops' = ops

NoRet == [op |-> "none", ok |-> TRUE, id |-> "", book |-> NoBook, prev |-> NoBook, u |-> NoUpdate]
Returned(op, ok, id, book, prev, u) ==
  [op |-> op, ok |-> ok, id |-> id, book |-> book, prev |-> prev, u |-> u]

\* ------------------------------------------------------------------------
\* fs backend: overrides
\* ------------------------------------------------------------------------

NoOverride == [title |-> None, authors |-> None, tags |-> None, isRead |-> None]

\* mergeOverride: every non-nil field of ov replaces the book's field.
mergeOverride(bk, ov) ==
  [bk EXCEPT !.title   = IF Present(ov.title) THEN Val(ov.title) ELSE @,
             !.authors = IF Present(ov.authors) THEN Val(ov.authors) ELSE @,
             !.tags    = IF Present(ov.tags) THEN Val(ov.tags) ELSE @,
             !.isRead  = IF Present(ov.isRead) THEN Val(ov.isRead) ELSE @]

\* applyOverride: looks the override up under the record's own ID.
applyOverride(bk, ovs) ==
  IF bk.id \in DOMAIN ovs THEN mergeOverride(bk, ovs[bk.id]) ELSE bk

\* The field-by-field copy at the top of fs UpdateBook (update.Rating is not
\* among the fields it copies).
MergeUpdateIntoOverride(ov, u) ==
  [title   |-> IF Present(u.title) THEN u.title ELSE ov.title,
   authors |-> IF Present(u.authors) THEN u.authors ELSE ov.authors,
   tags    |-> IF Present(u.tags) THEN u.tags ELSE ov.tags,
   isRead  |-> IF Present(u.isRead) THEN u.isRead ELSE ov.isRead]

\* saveOverrides followed by loadOverrides: json.MarshalIndent writes a nil
\* pointer or nil slice as null and an empty slice as []; json.Unmarshal
\* reads them back as nil and as an empty non-nil slice.
saveOverrides(ovs) == ovs

\* loadOverrides into the empty map New made: json.Unmarshal checks the
\* whole input before it stores anything, so a file that holds no complete
\* document leaves the map empty (New ignores the error).
loadOverrides(file, bytes) == IF bytes = "all" THEN file ELSE EmptyMap

\* ------------------------------------------------------------------------
\* fs backend: index structure
\* ------------------------------------------------------------------------

\* removeID: removes the first occurrence of id.
removeID(ids, id) ==
  IF \E i \in DOMAIN ids : ids[i] = id
  THEN LET i == CHOOSE j \in DOMAIN ids : ids[j] = id /\ \A k \in 1..(j-1) : ids[k] # id
       IN SubSeq(ids, 1, i - 1) \o SubSeq(ids, i + 1, Len(ids))
  ELSE ids

RemoveFromBuckets(m, id) == [k \in DOMAIN m |-> removeID(m[k], id)]

\* for _, a := range names { m[a] = append(m[a], id) }
AddToBuckets(m, names, id) ==
  LET F[i \in 0..Len(names)] ==
        IF i = 0 THEN m
        ELSE CHOOSE r \in {Put(b, names[i], Append(Get(b, names[i]), id)) : b \in {F[i-1]}} : TRUE
  IN F[Len(names)]

\* The loop of Refresh that fills the fresh authors (or tags) map.
BuildBuckets(books, field) ==
  LET F[i \in 0..Len(books)] ==
        IF i = 0 THEN EmptyMap
        ELSE CHOOSE r \in {AddToBuckets(b, IF field = "authors" THEN books[i].authors
                                                                   ELSE books[i].tags,
                                            books[i].id) : b \in {F[i-1]}} : TRUE
  IN F[Len(books)]

\* byID[bk.ID] = &books[i], in order, inside array number arr.
BuildByID(books, arr) ==
  [id \in {books[i].id : i \in DOMAIN books} |->
     [arr |-> arr,
      idx |-> CHOOSE i \in DOMAIN books :
                 books[i].id = id /\ \A j \in DOMAIN books : books[j].id = id => j <= i]]

SortNewestFirst(books) == InsSort(books, "added")

\* Garbage collection of the Go heap: arrays no pointer reaches are dropped,
\* the others renumbered in order, slots no pointer reaches are blanked.
Norm(h, len, bid) ==
  LET live == {1} \cup {bid[i].arr : i \in DOMAIN bid}
      rank(a) == Cardinality({b \in live : b <= a})
      old(k) == CHOOSE a \in live : rank(a) = k
      reach(a, i) == (a = 1 /\ i <= len) \/ (\E x \in DOMAIN bid : bid[x] = [arr |-> a, idx |-> i])
  IN [heap |-> [k \in 1..Cardinality(live) |->
                  [i \in DOMAIN h[old(k)] |-> IF reach(old(k), i) THEN h[old(k)][i] ELSE NoBook]],
      byID |-> [x \in DOMAIN bid |-> [arr |-> rank(bid[x].arr), idx |-> bid[x].idx]]]

Deref(ptr) == heap[ptr.arr][ptr.idx]

\* ------------------------------------------------------------------------
\* fs backend: reads
\* ------------------------------------------------------------------------

FsAllBooks == SubSeq(heap[1], 1, blen)
FsIsIndexed(id) == id \in DOMAIN byID
FsBookByID(id) == IF id \in DOMAIN byID THEN Deref(byID[id]) ELSE NoBook

\* BooksByAuthor / BooksByTag with offset 0 and no limit: the records the
\* bucket's ids point to, ids without a byID entry skipped.
FsBucketBooks(m, k) ==
  LET ids == SelectSeqBy(Get(m, k), DOMAIN byID)
  IN [i \in DOMAIN ids |-> Deref(byID[ids[i]])]
FsBooksByAuthor(n) == FsBucketBooks(authors, n)
FsBooksByTag(t) == FsBucketBooks(tags, t)

\* Authors / Tags with offset 0 and no limit: the keys of the map, in the
\* order the range statement yields them, which Go leaves unspecified; the
\* set of the listings a call can return.
FsAuthors == Perms(DOMAIN authors)
FsTags == Perms(DOMAIN tags)

\* strings.Contains(strings.ToLower(s), strings.ToLower(q.Query))
Matches(bk, text) ==
  \/ text = ""
  \/ Contains(ToLower(Code(bk.title)), ToLower(Code(text)))
  \/ \E i \in DOMAIN bk.authors : Contains(ToLower(Code(bk.authors[i])), ToLower(Code(text)))

\* Search with offset 0 and no limit: the books of b.books that pass the
\* filters, re-sorted unless the order asked for is added-descending.
FsSearch(q) ==
  LET Hit(bk) == ~(q.unreadOnly /\ bk.isRead) /\ Matches(bk, q.text)
      matched == SelectSeq(FsAllBooks, Hit)
  IN IF q.sortBy = "title"
     THEN InsSort(matched, IF q.sortOrder = "asc" THEN "title" ELSE "titleDesc")
     ELSE IF q.sortBy = "added" /\ q.sortOrder = "asc"
          THEN InsSort(matched, "addedAsc")
          ELSE matched

\* ------------------------------------------------------------------------
\* sqlite backend: tables and reads
\* ------------------------------------------------------------------------

\* The strings of S in byte order: the order in which SQLite walks the
\* primary-key index (book_id, author_name) / (book_id, tag).
SortStrings(S) ==
  [k \in 1..Cardinality(S) |->
     CHOOSE x \in S : Cardinality({y \in S : StrLess(y, x)}) = k - 1]

\* bookSelectColumns + bookRow.toBook: the row's columns, plus the authors
\* and tags gathered by json_group_array over the rows of the book, which
\* SQLite reads through the primary-key index (no ORDER BY position).
SqlToBook(tb, ta, tt, id) ==
  [id |-> id, path |-> tb[id].path, title |-> tb[id].title,
   authors |-> SortStrings({r.name : r \in {x \in ta : x.book = id}}),
   tags |-> SortStrings({r.tag : r \in {x \in tt : x.book = id}}),
   isRead |-> tb[id].isRead, rating |-> tb[id].rating,
   addedAt |-> tb[id].addedAt, updatedAt |-> tb[id].updatedAt,
   coverURL |-> tb[id].coverURL, thumbnailURL |-> tb[id].thumbnailURL]

\* queryBooks: the selected rows, decoded.
SqlRows(ids) ==
  LET s == SelectSeqBy(IdOrder, ids)
  IN [i \in DOMAIN s |-> SqlToBook(tBooks, tAuthors, tTags, s[i])]

SqlAllBooks == InsSort(SqlRows(DOMAIN tBooks), "default")
SqlIsIndexed(id) == id \in DOMAIN tBooks
SqlBookByID(id) ==
  IF id \in DOMAIN tBooks THEN SqlToBook(tBooks, tAuthors, tTags, id) ELSE NoBook

\* books b JOIN book_authors ba ON ba.book_id = b.id WHERE ba.author_name = ?
SqlBooksByAuthor(n) ==
  InsSort(SqlRows({id \in DOMAIN tBooks : \E r \in tAuthors : r.book = id /\ r.name = n}),
          "title")
SqlBooksByTag(t) ==
  InsSort(SqlRows({id \in DOMAIN tBooks : \E r \in tTags : r.book = id /\ r.tag = t}),
          "title")

\* sortClause: the ORDER BY of Search.
sortClause(q) ==
  IF q.sortBy = "title"
  THEN IF q.sortOrder = "desc" THEN "titleDesc" ELSE "title"
  ELSE IF q.sortOrder = "asc" THEN "addedAscTitle" ELSE "default"

\* Search with offset 0 and no limit: WHERE LOWER(title) LIKE %text% OR
\* LOWER(author_name) LIKE %text%, AND is_read = 0 if unread_only.
SqlSearch(q) ==
  InsSort(SqlRows({id \in DOMAIN tBooks :
                     LET bk == SqlToBook(tBooks, tAuthors, tTags, id)
                     IN ~(q.unreadOnly /\ bk.isRead) /\ Matches(bk, q.text)}),
          sortClause(q))

\* SELECT DISTINCT author_name FROM book_authors ORDER BY LOWER(author_name):
\* the listings a call can return (names equal but for case come in any
\* order).
SqlAuthors ==
  {l \in Perms({r.name : r \in tAuthors}) :
     \A i, j \in DOMAIN l : i < j => ~LowerLess(l[j], l[i])}
SqlTags ==
  {l \in Perms({r.tag : r \in tTags}) :
     \A i, j \in DOMAIN l : i < j => ~LowerLess(l[j], l[i])}

\* insertBook: INSERT OR IGNORE of the book row, then of one row per author
\* and per tag, in one transaction.
insertBook(db, bk) ==
  [books |-> IF bk.id \in DOMAIN db.books THEN db.books
             ELSE Put(db.books, bk.id,
                      [path |-> bk.path, title |-> bk.title, isRead |-> bk.isRead,
                       rating |-> bk.rating, addedAt |-> bk.addedAt,
                       updatedAt |-> bk.updatedAt, coverURL |-> bk.coverURL,
                       thumbnailURL |-> bk.thumbnailURL]),
   authors |-> db.authors \cup
               {[book |-> bk.id, name |-> bk.authors[i], pos |-> i - 1] :
                  i \in {j \in DOMAIN bk.authors :
                           /\ ~\E r \in db.authors : r.book = bk.id /\ r.name = bk.authors[j]
                           /\ \A k \in 1..(j-1) : bk.authors[k] # bk.authors[j]}},
   tags |-> db.tags \cup {[book |-> bk.id, tag |-> bk.tags[i]] : i \in DOMAIN bk.tags}]

\* for _, f := range newFiles { insertBook(book) }
InsertAll(db, bks) ==
  LET F[i \in 0..Len(bks)] ==
        IF i = 0 THEN db
        ELSE CHOOSE r \in {insertBook(d, bks[i]) : d \in {F[i-1]}} : TRUE
  IN F[Len(bks)]

\* DELETE FROM books WHERE id = ?, with ON DELETE CASCADE on both child tables.
DeleteRow(db, id) ==
  [books |-> Drop(db.books, id),
   authors |-> {r \in db.authors : r.book # id},
   tags |-> {r \in db.tags : r.book # id}]

\* DeleteRow for every id of ids.
DeleteRows(db, ids) ==
  [books |-> [x \in DOMAIN db.books \ ids |-> db.books[x]],
   authors |-> {r \in db.authors : r.book \notin ids},
   tags |-> {r \in db.tags : r.book \notin ids}]

DB == [books |-> tBooks, authors |-> tAuthors, tags |-> tTags]
EmptyDB == [books |-> EmptyMap, authors |-> {}, tags |-> {}]

NoDup(s) == \A i, j \in DOMAIN s : s[i] = s[j] => i = j

\* The "apply updates to the in-memory copy" block of sqlite UpdateBook.
ApplyUpdate(bk, u, t) ==
  [bk EXCEPT !.title   = IF Present(u.title) THEN Val(u.title) ELSE @,
             !.authors = IF Present(u.authors) THEN Val(u.authors) ELSE @,
             !.tags    = IF Present(u.tags) THEN Val(u.tags) ELSE @,
             !.isRead  = IF Present(u.isRead) THEN Val(u.isRead) ELSE @,
             !.rating  = IF Present(u.rating) THEN Val(u.rating) ELSE @,
             !.updatedAt = t]

\* ------------------------------------------------------------------------
\* Reads of the constructed backend
\* ------------------------------------------------------------------------

AllBooks == IF backend = "fs" THEN FsAllBooks ELSE SqlAllBooks
IsIndexed(id) == IF backend = "fs" THEN FsIsIndexed(id) ELSE SqlIsIndexed(id)
BookByID(id) == IF backend = "fs" THEN FsBookByID(id) ELSE SqlBookByID(id)
BooksByAuthor(n) == IF backend = "fs" THEN FsBooksByAuthor(n) ELSE SqlBooksByAuthor(n)
BooksByTag(t) == IF backend = "fs" THEN FsBooksByTag(t) ELSE SqlBooksByTag(t)

Authors == IF backend = "fs" THEN FsAuthors ELSE SqlAuthors
Tags == IF backend = "fs" THEN FsTags ELSE SqlTags
Search(q) == IF backend = "fs" THEN FsSearch(q) ELSE SqlSearch(q)

\* The search queries of the model (catalog.SearchQuery).
Queries ==
  { [text |-> "", unreadOnly |-> FALSE, sortBy |-> "", sortOrder |-> ""],
    [text |-> "", unreadOnly |-> TRUE, sortBy |-> "title", sortOrder |-> "asc"],
    [text |-> "x", unreadOnly |-> FALSE, sortBy |-> "title", sortOrder |-> "desc"],
    [text |-> "A", unreadOnly |-> FALSE, sortBy |-> "added", sortOrder |-> "asc"] }

\* Pagination: the slice [offset, offset + limit) of a listing.
Page(l, offset, limit) ==
  SubSeq(l, offset + 1, IF offset + limit > Len(l) THEN Len(l) ELSE offset + limit)

IndexedIDs == {id \in IDs : IsIndexed(id)}

\* Everything the read operations show of the index.
Observe ==
  [all |-> AllBooks,
   byID |-> [id \in IndexedIDs |-> BookByID(id)],
   byAuthor |-> [n \in Names |-> BooksByAuthor(n)],
   byTag |-> [t \in TagNames |-> BooksByTag(t)]]

\* ------------------------------------------------------------------------
\* The covers directory
\* ------------------------------------------------------------------------

\* The extensions CoverPath, UpdateCover and the handlers know.
KnownExts == {".jpg", ".jpeg", ".png", ".gif", ".webp"}

\* The extensions UpdateCover is called with.
Exts == {".jpg", ".png"}

\* The image streams UpdateCover is called with.
Images == {"img1", "img2"}

\* The concurrent callers of UpdateCover (HTTP requests).
Callers == {1, 2}

\* "/covers/" + id
CoverURLOf(id) ==
  CASE id = "id_a" -> "/covers/id_a"
    [] id = "id_b" -> "/covers/id_b"
    [] id = "id_c" -> "/covers/id_c"

\* os.Remove(filepath.Join(b.coversDir, id+ext))
RemoveCover(cs, id, ext) == {f \in cs : ~(f.id = id /\ f.ext = ext)}

\* The loop at the top of UpdateCover: the files id+oldExt of every known
\* extension are removed.
RemoveOldCovers(cs, id) == {f \in cs : ~(f.id = id /\ f.ext \in KnownExts)}

\* epub.CoverPath: the first of .jpg, .jpeg, .png, .gif, .webp for which a
\* file id+ext exists, None if there is none.
CoverPath(cs, id) ==
  LET order == <<".jpg", ".jpeg", ".png", ".gif", ".webp">>
      hits == {i \in DOMAIN order : \E f \in cs : f.id = id /\ f.ext = order[i]}
  IN IF hits = {} THEN None
     ELSE Some(order[CHOOSE i \in hits : \A j \in hits : i <= j])

\* ------------------------------------------------------------------------
\* The backup directory
\* ------------------------------------------------------------------------

\* time.Now().Format("20060102-150405") wrapped in "catalog-" and ".db":
\* the names of the snapshots by the second they are taken in.
BkStamps ==
  <<"catalog-20240101-000000.db", "catalog-20240102-000000.db",
    "catalog-20240103-000000.db", "catalog-20240104-000000.db",
    "catalog-20261104-000000.db", "catalog-20261105-000000.db">>

\* The second the first Backup of a behaviour can run in.
FirstBackup == 5

\* The entries a backup directory can hold, in the order os.ReadDir lists
\* them (sorted by filename, byte-wise): the six snapshot names, a copy of
\* a snapshot with another extension, a directory, a snapshot under a name
\* without a timestamp, and a file without the dash.
BkOrder ==
  <<"catalog-20240101-000000.db", "catalog-20240102-000000.db",
    "catalog-20240102-000000.db.bak", "catalog-20240103-000000.db",
    "catalog-20240104-000000.db", "catalog-20261104-000000.db",
    "catalog-20261105-000000.db", "catalog-archive.db", "catalog-old.db",
    "catalog.db">>

BkNames == {BkOrder[i] : i \in DOMAIN BkOrder}

\* e.IsDir()
IsDir(n) == n = "catalog-archive.db"

\* n[:8], for the names of at least 8 bytes
Prefix8(n) == IF n = "catalog.db" THEN "catalog." ELSE "catalog-"

\* filepath.Ext(n): the suffix from the last dot on
Ext(n) == IF n = "catalog-20240102-000000.db.bak" THEN ".bak" ELSE ".db"

\* os.ReadDir(dir): the entries sorted by filename
ReadDir(d) == SelectSeqBy(BkOrder, d)

\* The number of files pruneBackups keeps one too many of.
ExcessShort(n, keep) == n - keep - 1

\* len(backups)-keep: the number of files pruneBackups removes when there
\* are more than keep.
Excess(n, keep) == n - keep

\* pruneBackups(dir, keep): the directory after the oldest files that match
\* the backup naming convention are removed, all removals succeeding.
pruneBackups(d, keep) ==
  LET backups == SelectSeqBy(ReadDir(d),
                   {n \in d : ~IsDir(n) /\ Prefix8(n) = "catalog-" /\ Ext(n) = ".db"})
  IN IF Len(backups) > keep
     THEN d \ {backups[i] : i \in 1..Excess(Len(backups), keep)}
     ELSE d

\* The values of keep (cfg.BackupKeep; keep <= 0 is unlimited).
Keeps == 0..2

\* return destPath, fmt.Errorf("prune backups: %w", err)
PruneErrorReturn(destPath) == [path |-> destPath, err |-> "prune backups"]

\* runNightlyBackup: the line logged after bu.Backup returned.
NightlyLog(path, err) ==
  IF err # "" THEN "nightly backup error" ELSE "nightly backup created"

\* What a Backup call returned (path, err), with its arguments, the
\* directory before it, whether os.ReadDir failed in it, and the line the
\* nightly loop logged.
BackupReturned(r, keep, before, pruneFailed) ==
  [path |-> r.path, err |-> r.err, keep |-> keep, before |-> before,
   pruneFailed |-> pruneFailed, log |-> NightlyLog(r.path, r.err), called |-> TRUE]

NoBackup ==
  [path |-> "", err |-> "", keep |-> 0, before |-> {}, pruneFailed |-> FALSE,
   log |-> "", called |-> FALSE]

\* ------------------------------------------------------------------------
\* sqlite schema migrations
\* ------------------------------------------------------------------------

currentSchemaVersion == 1

\* The columns of table books that the rows of this model carry, and
\* series_total; migration1 creates them all.
AllColumns ==
  {"id", "title", "updated_at", "added_at", "series_total", "is_read", "rating",
   "cover_url", "thumbnail_url", "file_path"}

\* The columns that were added to the table after its first release.
LaterAdded == {"added_at", "series_total", "rating"}

\* The ALTER TABLE list of migration1 without the rating column.
AlterColumnsFew == {"added_at", "series_total"}

\* The columns migration1 adds with ALTER TABLE books ADD COLUMN.
AlterColumns == {"added_at", "series_total", "rating"}

\* The value of a field whose column the table does not have.
NoColumn == "no column"

\* A row with the DEFAULT of each column of added filled in.
WithDefaults(row, added) ==
  [row EXCEPT !.addedAt = IF "added_at" \in added THEN 0 ELSE @,
              !.rating = IF "rating" \in added THEN 0 ELSE @]

\* A row as a table with the columns cols holds it.
WithoutColumns(row, cols) ==
  [row EXCEPT !.addedAt = IF "added_at" \in cols THEN @ ELSE NoColumn,
              !.rating = IF "rating" \in cols THEN @ ELSE NoColumn]

\* migration1 on a store: CREATE TABLE IF NOT EXISTS creates the table with
\* all columns when there is none and leaves an existing table alone; each
\* ALTER TABLE adds its column to the rows with the column's default, or
\* fails with "duplicate column name", which is ignored.
migration1(cols, books) ==
  LET created == IF cols = {} THEN AllColumns ELSE cols
      added == AlterColumns \ created
  IN [columns |-> created \cup added,
      books |-> [id \in DOMAIN books |-> WithDefaults(books[id], added)]]

\* migrateSchema applying every migration whatever the version.
PendingAlways(mversion, version) == TRUE

\* The test of migrateSchema's loop: m.version <= version is skipped.
Pending(mversion, version) == ~(mversion <= version)

\* queryBooks fails with "no such column" unless the table has every column
\* of bookSelectColumns.
Queryable == AllColumns \subseteq columns

\* ------------------------------------------------------------------------
\* HTTP sessions
\* ------------------------------------------------------------------------

\* sessionDuration, in ticks of the session clock.
sessionDuration == 2

\* The requests to a route behind authMiddleware: the value of the session
\* cookie (0: no cookie; the tokens are numbered as create returns them,
\* each a fresh random string), the password of the Basic Auth header
\* ("": no header), whether the path is under /api/ or /opds, and whether
\* the Accept header is empty or includes HTML.
Requests ==
  [cookie : 0..MaxOps, basic : {"", "secret", "wrong"}, api : BOOLEAN, html : BOOLEAN]

\* sessionStore.valid: the token is in the map and time.Now() is not after
\* its expiry.
valid(toks, clock, token) == token \in DOMAIN toks /\ ~(clock > toks[token])

\* The map after sessionStore.valid: an expired token is deleted from it.
AfterValid(toks, clock, token) ==
  IF token \in DOMAIN toks /\ clock > toks[token] THEN Drop(toks, token) ELSE toks

\* handleLogout deleting nothing.
deleteNothing(toks, token) == toks

\* sessionStore.delete
delete(toks, token) == Drop(toks, token)

\* authMiddleware: "next" when the request is passed on to the handler,
\* "redirect" for 303 to /login, "401" for unauthorized.
authMiddleware(pw, toks, clock, r) ==
  IF pw = "" THEN "next"
  ELSE IF r.cookie # 0 /\ valid(toks, clock, r.cookie) THEN "next"
  ELSE IF r.basic # "" /\ r.basic = pw THEN "next"
  ELSE IF ~r.api /\ r.html THEN "redirect"
  ELSE "401"

NoRequest ==
  [kind |-> "none", cookie |-> 0, basic |-> "", api |-> FALSE, html |-> FALSE, outcome |-> ""]

\* ------------------------------------------------------------------------
\* History bookkeeping shared by the actions
\* ------------------------------------------------------------------------

NoWrite == [kind |-> "none", u |-> NoUpdate]
Write(kind, u) == [kind |-> kind, u |-> u]

\* A step of an operation other than Refresh: kind names the operation, wid
\* the book it wrote ("" if none), w what it wrote.
OpHist(kind, wid, w) ==
  /\ lastWrite' = IF wid = "" THEN lastWrite ELSE [lastWrite EXCEPT ![wid] = w]
  /\ rfConc' = IF rfPc = "idle" THEN {} ELSE rfConc \cup {kind}
  /\ rfBefore' = IF rfPc = "idle" THEN EmptyMap ELSE rfBefore
  /\ lastObs' = None
  /\ prevObs' = None
  /\ UNCHANGED upEarlier

\* The first step of a Refresh pass.
RefreshStartHist ==
  /\ rfConc' = {}
  /\ upDuringRf' = {}
  /\ rfBefore' = [id \in IndexedIDs |-> BookByID(id)]
  /\ prevObs' = None
  /\ upEarlier' = upDuringRf
  /\ UNCHANGED <<lastWrite, lastObs>>

\* A middle step of a Refresh pass.
RefreshMidHist ==
  /\ prevObs' = None
  /\ UNCHANGED <<lastWrite, upDuringRf, rfConc, rfBefore, lastObs, upEarlier>>

\* The step in which Refresh returns: what the reads show is recorded if the
\* pass ran alone.
RefreshDoneHist ==
  /\ prevObs' = lastObs
  /\ lastObs' = IF rfConc = {} THEN Some(Observe') ELSE None
  /\ UNCHANGED <<lastWrite, upDuringRf, rfConc, rfBefore, upEarlier>>

OnDisk == {p \in Paths : disk[p] # Absent}

\* ------------------------------------------------------------------------
\* Construction: New(dir) on a library root, ending with its first Refresh
\* ------------------------------------------------------------------------

InitialBooks(d) ==
  LET present == SelectSeqBy(WalkOrder, {p \in Paths : d[p] # Absent})
  IN [i \in DOMAIN present |-> Val(Parse(present[i], d[present[i]], 0))]

Init ==
  /\ backend \in {"fs", "sqlite"}
  /\ disk \in [Paths -> {Absent, 0}]
  /\ corrupt = {}
  /\ now = 0
  /\ ops = 0
  /\ LET bks == IF backend = "fs" THEN SortNewestFirst(InitialBooks(disk)) ELSE <<>>
     IN /\ heap = <<bks>>
        /\ blen = Len(bks)
        /\ byID = BuildByID(bks, 1)
        /\ authors = BuildBuckets(bks, "authors")
        /\ tags = BuildBuckets(bks, "tags")
  /\ overrides = EmptyMap
  /\ metadataFile = EmptyMap
  /\ LET db == IF backend = "sqlite" THEN InsertAll(EmptyDB, InitialBooks(disk)) ELSE EmptyDB
     IN /\ tBooks = db.books
        /\ tAuthors = db.authors
        /\ tTags = db.tags
  /\ rfPc = "idle" /\ rfBooks = <<>> /\ rfOnDisk = OnDisk /\ rfInDB = {}
  /\ upPc = "idle" /\ upPath = "" /\ upData = "good" /\ upErr = ""
  /\ tmpFiles = {}
  /\ covers = {} /\ ucPc = [c \in Callers |-> None] /\ ucLast = None
  /\ bdir = {} /\ bkClock = FirstBackup /\ bkRet = NoBackup
  /\ password = "secret" /\ tokens = EmptyMap /\ seClock = 0 /\ issued = 0
  /\ loggedOut = {} /\ seRet = NoRequest
  /\ mu = Unlocked /\ rfOv = FALSE /\ txFailed = 0
  /\ mfBytes = "all" /\ mfPrev = EmptyMap /\ mgFault = "none"
  /\ wall = 0 /\ nbPc = "top" /\ nbNext = 0 /\ nbSlept = 0 /\ nbCalls = <<>>
  /\ cuPc = [c \in {1, 2} |-> "idle"] /\ cuPath = [c \in {1, 2} |-> ""]
  /\ cuData = [c \in {1, 2} |-> "good"] /\ cuRet = [c \in {1, 2} |-> ""]
  /\ destBy = [p \in Paths |-> 0]
  /\ cbPc = [c \in {1, 2} |-> "idle"] /\ cbArg = [c \in {1, 2} |-> <<>>]
  /\ cbRet = [c \in {1, 2} |-> <<>>]
  /\ userVersion = currentSchemaVersion /\ columns = AllColumns /\ applied = 1
  /\ dbPc = "open" /\ mgFrom = None
  /\ ret = NoRet
  /\ lastWrite = [id \in IDs |-> NoWrite]
  /\ upDuringRf = {}
  /\ rfConc = {}
  /\ rfBefore = EmptyMap
  /\ lastObs = Some(Observe)
  /\ prevObs = None
  /\ upEarlier = {}

\* ------------------------------------------------------------------------
\* The library root changes outside the process
\* ------------------------------------------------------------------------

ExtRemove(p) ==
  /\ disk[p] # Absent
  /\ disk' = [disk EXCEPT ![p] = Absent]
  /\ corrupt' = corrupt \ {p}
  /\ ret' = NoRet
  /\ OpHist("ext", PathToID(p), NoWrite)
  /\ Still
  /\ Spend
  /\ UNCHANGED <<backend, concVars, bkVars, mgVars, seVars, coverVars, fsVars, sqlVars, rfVars, upVars, upDuringRf>>

\* ------------------------------------------------------------------------
\* StoreBook, both backends: up to the rename
\* ------------------------------------------------------------------------

\* The file names StoreBook is called with; "d.txt" has no accepted extension.
Filenames == Paths \cup {"d.txt"}
Supported(f) == f \in Paths

\* What the byte stream of an upload can be.
Streams == {"good", "bad", "broken"}

\* The name os.CreateTemp(b.root, ".upload-*.tmp") picks.
TempName == ".upload-1.tmp"

\* StoreBook without its os.Stat check: no destination counts as taken.
ExistsNever(d, p) == FALSE

\* os.Stat(destPath) returns no error.
Exists(d, p) == d[p] # Absent

\* StoreBook without the return in the io.Copy error branch.
ProceedsAlways(copyErr) == TRUE

\* Whether StoreBook goes on to the rename after io.Copy.
Proceeds(copyErr) == ~copyErr

\* StoreBook without its deferred os.Remove.
DeferredNone(tmps, name) == tmps

\* defer func() { _ = os.Remove(tmpPath) }(), run when StoreBook returns.
Deferred(tmps, name) == tmps \ {name}

\* The whole first half of a StoreBook call that goes well: os.Stat(destPath)
\* fails, the stream is copied to a temporary file, which is renamed to
\* destPath; the file's modification time is the time of the write.
StoreWrite(p) ==
  /\ upPc = "idle"
  /\ disk[p] = Absent
  /\ Tick
  /\ Spend
  /\ disk' = [disk EXCEPT ![p] = now + 1]
  /\ upPc' = "renamed"
  /\ upPath' = p
  /\ upData' = "good"
  /\ ret' = NoRet
  /\ OpHist("upload", "", NoWrite)
  /\ UNCHANGED <<backend, concVars, bkVars, mgVars, seVars, coverVars, corrupt, fsVars, sqlVars, rfVars, upErr, tmpFiles, upDuringRf>>

\* StoreBook returns before it creates anything: the extension is not
\* accepted, or destPath exists.
StoreReject(f) ==
  /\ upPc = "idle"
  /\ IF Supported(f) THEN Exists(disk, f) ELSE TRUE
  /\ Still
  /\ Spend
  /\ upErr' = IF Supported(f) THEN "already exists" ELSE "unsupported file type"
  /\ ret' = Returned("upload", FALSE, IF Supported(f) THEN PathToID(f) ELSE "",
                     NoBook, NoBook, NoUpdate)
  /\ OpHist("upload", "", NoWrite)
  /\ UNCHANGED <<backend, concVars, bkVars, mgVars, seVars, coverVars, disk, corrupt, fsVars, sqlVars, rfVars, upPc, upPath, upData,
                 tmpFiles, upDuringRf>>

\* StoreBook up to os.CreateTemp: the checks pass, the temporary file exists.
StoreBegin(p, data) ==
  /\ upPc = "idle"
  /\ ~Exists(disk, p)
  /\ Still
  /\ Spend
  /\ tmpFiles' = tmpFiles \cup {TempName}
  /\ upPc' = "temp"
  /\ upPath' = p
  /\ upData' = data
  /\ ret' = NoRet
  /\ OpHist("upload", "", NoWrite)
  /\ UNCHANGED <<backend, concVars, bkVars, mgVars, seVars, coverVars, disk, corrupt, fsVars, sqlVars, rfVars, upErr, upDuringRf>>

\* StoreBook from io.Copy to os.Rename: a stream that fails makes the call
\* return (the deferred removal runs); otherwise the temporary file is
\* closed and renamed to destPath, whatever was at destPath.
StoreCopy ==
  /\ upPc = "temp"
  /\ Keep
  /\ IF Proceeds(upData = "broken")
     THEN /\ Tick
          /\ disk' = [disk EXCEPT ![upPath] = now + 1]
          /\ corrupt' = IF upData = "good" THEN corrupt \ {upPath}
                        ELSE corrupt \cup {upPath}
          /\ tmpFiles' = tmpFiles \ {TempName}
          /\ upPc' = "renamed"
          /\ ret' = NoRet
          /\ UNCHANGED <<upPath, upErr>>
     ELSE /\ Still
          /\ tmpFiles' = Deferred(tmpFiles, TempName)
          /\ upPc' = "idle"
          /\ upPath' = ""
          /\ upErr' = "write upload"
          /\ ret' = Returned("upload", FALSE, PathToID(upPath), NoBook, NoBook, NoUpdate)
          /\ UNCHANGED <<disk, corrupt>>
  /\ OpHist("upload", "", NoWrite)
  /\ UNCHANGED <<backend, concVars, bkVars, mgVars, seVars, coverVars, fsVars, sqlVars, rfVars, upData, upDuringRf>>

\* ------------------------------------------------------------------------
\* fs backend
\* ------------------------------------------------------------------------

FsUpdateBook(id, u) ==
  /\ backend = "fs"
  /\ id \in DOMAIN byID
  /\ Tick
  /\ Spend
  /\ LET old == IF id \in DOMAIN overrides THEN overrides[id] ELSE NoOverride
         ovs == Put(overrides, id, MergeUpdateIntoOverride(old, u))
         ptr == byID[id]
         updated == applyOverride(Deref(ptr), ovs)
         stamped == [updated EXCEPT !.updatedAt = now + 1]
     IN /\ overrides' = ovs
        /\ metadataFile' = saveOverrides(ovs)
        /\ authors' = AddToBuckets(RemoveFromBuckets(authors, id), updated.authors, updated.id)
        /\ tags' = AddToBuckets(RemoveFromBuckets(tags, id), updated.tags, updated.id)
        /\ heap' = [heap EXCEPT ![ptr.arr][ptr.idx] = stamped]
        /\ ret' = Returned("update", TRUE, id, stamped, Deref(ptr), u)
  /\ OpHist("update", id, Write("update", u))
  /\ UNCHANGED <<backend, concVars, bkVars, mgVars, seVars, coverVars, disk, corrupt, blen, byID, sqlVars, rfVars, upVars, upDuringRf>>

FsDeleteBook(id) ==
  /\ backend = "fs"
  /\ id \in DOMAIN byID
  /\ LET bk == Deref(byID[id])
         found == {i \in 1..blen : heap[1][i].id = id}
         i0 == CHOOSE i \in found : \A j \in found : i <= j
         arr == heap[1]
         \* b.books = append(b.books[:i], b.books[i+1:]...): shifts in place
         arr2 == IF found = {} THEN arr
                 ELSE [j \in DOMAIN arr |-> IF j >= i0 /\ j < blen THEN arr[j+1] ELSE arr[j]]
         len2 == IF found = {} THEN blen ELSE blen - 1
         n == Norm([heap EXCEPT ![1] = arr2], len2, Drop(byID, id))
     IN /\ disk' = [disk EXCEPT ![bk.path] = Absent]
        /\ corrupt' = corrupt \ {bk.path}
        /\ covers' = RemoveCover(covers, id, ".jpg")
        /\ authors' = RemoveFromBuckets(authors, id)
        /\ tags' = RemoveFromBuckets(tags, id)
        /\ heap' = n.heap
        /\ byID' = n.byID
        /\ blen' = len2
        /\ overrides' = Drop(overrides, id)
        /\ metadataFile' = saveOverrides(Drop(overrides, id))
        /\ ret' = Returned("delete", TRUE, id, NoBook, bk, NoUpdate)
  /\ upDuringRf' = upDuringRf \ {id}
  /\ OpHist("delete", id, Write("delete", NoUpdate))
  /\ Still
  /\ Spend
  /\ UNCHANGED <<backend, concVars, bkVars, mgVars, seVars, ucPc, ucLast, sqlVars, rfVars, upVars>>

\* StoreBook after the rename: parse, then insert under b.mu.Lock().
FsStoreIndex ==
  /\ backend = "fs"
  /\ upPc = "renamed"
  /\ Tick
  /\ Keep
  /\ LET parsed == Parse(upPath, disk[upPath], now + 1)
         id == PathToID(upPath)
     IN IF parsed = None
        THEN /\ ret' = Returned("upload", FALSE, id, NoBook, NoBook, NoUpdate)
             /\ upErr' = "parse epub"
             /\ OpHist("upload", "", NoWrite)
             /\ UNCHANGED <<fsVars, upDuringRf>>
        ELSE LET book == applyOverride(Val(parsed), overrides)
                 \* append([]catalog.Book{book}, b.books...): a new array
                 h2 == <<(<<book>> \o FsAllBooks)>> \o heap
                 moved == [x \in DOMAIN byID |->
                             [arr |-> byID[x].arr + 1, idx |-> byID[x].idx]]
                 n == Norm(h2, blen + 1, Put(moved, book.id, [arr |-> 1, idx |-> 1]))
             IN /\ heap' = n.heap
                /\ byID' = n.byID
                /\ blen' = blen + 1
                /\ authors' = AddToBuckets(authors, book.authors, book.id)
                /\ tags' = AddToBuckets(tags, book.tags, book.id)
                /\ ret' = Returned("upload", TRUE, id, book, NoBook, NoUpdate)
                /\ upErr' = ""
                /\ upDuringRf' = IF rfPc = "idle" THEN upDuringRf ELSE upDuringRf \cup {id}
                /\ OpHist("upload", id, Write("upload", NoUpdate))
                /\ UNCHANGED <<overrides, metadataFile>>
  /\ upPc' = "idle"
  /\ upPath' = ""
  /\ tmpFiles' = Deferred(tmpFiles, TempName)
  /\ UNCHANGED <<backend, concVars, bkVars, mgVars, seVars, coverVars, disk, corrupt, sqlVars, rfVars, upData>>

\* The WalkDir callback returning the parse error: the walk stops at the
\* first file that does not parse.
WalkBooksAbort(found, d, t) ==
  LET paths == SelectSeqBy(WalkOrder, found)
      bad == {i \in DOMAIN paths : Parse(paths[i], d[paths[i]], t) = None}
      n == IF bad = {} THEN Len(paths)
           ELSE (CHOOSE i \in bad : \A j \in bad : i <= j) - 1
  IN [i \in 1..n |-> Val(Parse(paths[i], d[paths[i]], t))]

\* The books the WalkDir of fs Refresh collects: every file found is
\* parsed, in walk order, a file that does not parse is skipped.
WalkBooks(found, d, t) ==
  LET paths == SelectSeqBy(WalkOrder, found)
      ok == SelectSeqBy(paths, {p \in Paths : Parse(p, d[p], t) # None})
  IN [i \in DOMAIN ok |-> Val(Parse(ok[i], d[ok[i]], t))]

\* Refresh, the WalkDir: every file found is parsed.
FsRefreshScan ==
  /\ backend = "fs"
  /\ rfPc = "idle"
  /\ Tick
  /\ Spend
  /\ rfBooks' = WalkBooks(OnDisk, disk, now + 1)
  /\ rfOnDisk' = OnDisk
  /\ rfPc' = "scanned"
  /\ ret' = NoRet
  /\ RefreshStartHist
  /\ UNCHANGED <<backend, concVars, bkVars, mgVars, seVars, coverVars, disk, corrupt, fsVars, sqlVars, rfInDB, upVars>>

\* Refresh without its override merge: the scanned books as parsed.
MergeScannedNone(books, ovs) == books

\* The override merge of the scanned books, read through the map taken
\* under RLock, before the sort.
MergeScanned(books, ovs) == [i \in DOMAIN books |-> applyOverride(books[i], ovs)]

\* Refresh: overrides are merged into the scanned books, which are sorted.
\* The loop reads b.overrides itself (the map header copied under RLock
\* shares its contents), taken here as one step.
FsRefreshMerge ==
  /\ backend = "fs"
  /\ rfPc = "scanned"
  /\ rfBooks' = SortNewestFirst(MergeScanned(rfBooks, overrides))
  /\ rfPc' = "merged"
  /\ ret' = NoRet
  /\ RefreshMidHist
  /\ Still
  /\ Keep
  /\ UNCHANGED <<backend, concVars, bkVars, mgVars, seVars, coverVars, disk, corrupt, fsVars, sqlVars, rfOnDisk, rfInDB, upVars>>

\* Refresh: the new slice and maps replace the old ones under b.mu.Lock().
FsRefreshSwap ==
  /\ backend = "fs"
  /\ rfPc = "merged"
  /\ heap' = <<rfBooks>>
  /\ blen' = Len(rfBooks)
  /\ byID' = BuildByID(rfBooks, 1)
  /\ authors' = BuildBuckets(rfBooks, "authors")
  /\ tags' = BuildBuckets(rfBooks, "tags")
  /\ rfPc' = "idle"
  /\ rfBooks' = <<>>
  /\ ret' = Returned("refresh", TRUE, "", NoBook, NoBook, NoUpdate)
  /\ Still
  /\ Keep
  /\ UNCHANGED <<backend, concVars, bkVars, mgVars, seVars, coverVars, disk, corrupt, overrides, metadataFile, sqlVars, rfOnDisk, rfInDB, upVars>>
  /\ RefreshDoneHist

\* ------------------------------------------------------------------------
\* sqlite backend
\* ------------------------------------------------------------------------

SqlUpdateBook(id, u) ==
  /\ backend = "sqlite"
  /\ id \in DOMAIN tBooks
  /\ Tick
  /\ Spend
  /\ LET prev == SqlBookByID(id)
         bk == ApplyUpdate(prev, u, now + 1)
     IN \* INSERT INTO book_authors / book_tags fails on a repeated name
        /\ NoDup(bk.authors) /\ NoDup(bk.tags)
        /\ tBooks' = [tBooks EXCEPT ![id] =
                        [@ EXCEPT !.title = bk.title, !.isRead = bk.isRead,
                                  !.rating = bk.rating, !.updatedAt = bk.updatedAt]]
        /\ tAuthors' = {r \in tAuthors : r.book # id} \cup
                       {[book |-> id, name |-> bk.authors[i], pos |-> i - 1] :
                          i \in DOMAIN bk.authors}
        /\ tTags' = {r \in tTags : r.book # id} \cup
                    {[book |-> id, tag |-> bk.tags[i]] : i \in DOMAIN bk.tags}
        /\ ret' = Returned("update", TRUE, id, bk, prev, u)
  /\ OpHist("update", id, Write("update", u))
  /\ UNCHANGED <<backend, concVars, bkVars, mgVars, seVars, coverVars, disk, corrupt, fsVars, rfVars, upVars, upDuringRf>>

SqlDeleteBook(id) ==
  /\ backend = "sqlite"
  /\ id \in DOMAIN tBooks
  /\ LET db == DeleteRow(DB, id)
     IN /\ tBooks' = db.books
        /\ tAuthors' = db.authors
        /\ tTags' = db.tags
  /\ disk' = [disk EXCEPT ![tBooks[id].path] = Absent]
  /\ corrupt' = corrupt \ {tBooks[id].path}
  /\ covers' = RemoveCover(covers, id, ".jpg")
  /\ ret' = Returned("delete", TRUE, id, NoBook, SqlBookByID(id), NoUpdate)
  /\ upDuringRf' = upDuringRf \ {id}
  /\ OpHist("delete", id, Write("delete", NoUpdate))
  /\ Still
  /\ Spend
  /\ UNCHANGED <<backend, concVars, bkVars, mgVars, seVars, ucPc, ucLast, fsVars, rfVars, upVars>>

\* StoreBook after the rename: parse, then insertBook.
SqlStoreIndex ==
  /\ backend = "sqlite"
  /\ upPc = "renamed"
  /\ Tick
  /\ Keep
  /\ LET parsed == Parse(upPath, disk[upPath], now + 1)
         id == PathToID(upPath)
     IN IF parsed = None
        THEN /\ ret' = Returned("upload", FALSE, id, NoBook, NoBook, NoUpdate)
             /\ upErr' = "parse epub"
             /\ OpHist("upload", "", NoWrite)
             /\ UNCHANGED <<sqlVars, upDuringRf>>
        ELSE LET db == insertBook(DB, Val(parsed))
             IN /\ tBooks' = db.books
                /\ tAuthors' = db.authors
                /\ tTags' = db.tags
                /\ ret' = Returned("upload", TRUE, id, Val(parsed), NoBook, NoUpdate)
                /\ upErr' = ""
                /\ upDuringRf' = IF rfPc = "idle" THEN upDuringRf ELSE upDuringRf \cup {id}
                /\ OpHist("upload", id, Write("upload", NoUpdate))
  /\ upPc' = "idle"
  /\ upPath' = ""
  /\ tmpFiles' = Deferred(tmpFiles, TempName)
  /\ UNCHANGED <<backend, concVars, bkVars, mgVars, seVars, coverVars, disk, corrupt, fsVars, rfVars, upData>>

\* Refresh: the WalkDir collects the paths on disk.
SqlRefreshScan ==
  /\ backend = "sqlite"
  /\ rfPc = "idle"
  /\ rfOnDisk' = OnDisk
  /\ rfPc' = "scanned"
  /\ ret' = NoRet
  /\ RefreshStartHist
  /\ Still
  /\ Spend
  /\ UNCHANGED <<backend, concVars, bkVars, mgVars, seVars, coverVars, disk, corrupt, fsVars, sqlVars, rfBooks, rfInDB, upVars>>

\* Refresh: SELECT id, file_path FROM books.
SqlRefreshList ==
  /\ backend = "sqlite"
  /\ rfPc = "scanned"
  /\ rfInDB' = {<<tBooks[id].path, id>> : id \in DOMAIN tBooks}
  /\ rfPc' = "listed"
  /\ ret' = NoRet
  /\ RefreshMidHist
  /\ Still
  /\ Keep
  /\ UNCHANGED <<backend, concVars, bkVars, mgVars, seVars, coverVars, disk, corrupt, fsVars, sqlVars, rfBooks, rfOnDisk, upVars>>

\* The paths the insert loop of Refresh does not skip as already indexed.
NewFiles(onDisk, inDB) == onDisk \ {e[1] : e \in inDB}

\* A Refresh that inserts no row.
NewlyDiscoveredNone(onDisk, inDB, d, t) == <<>>

\* The books Refresh parses: the scanned paths not listed in the index,
\* unreadable EPUBs skipped.
NewlyDiscovered(onDisk, inDB, d, t) ==
  LET paths == SelectSeqBy(WalkOrder, NewFiles(onDisk, inDB))
      ok == SelectSeqBy(paths, {p \in Paths : Parse(p, d[p], t) # None})
  IN [i \in DOMAIN ok |-> Val(Parse(ok[i], d[ok[i]], t))]

\* Refresh: newly discovered files are parsed and inserted.
SqlRefreshInsert ==
  /\ backend = "sqlite"
  /\ rfPc = "listed"
  /\ LET bks == NewlyDiscovered(rfOnDisk, rfInDB, disk, now + 1)
         db == InsertAll(DB, bks)
     IN /\ now' = IF bks = <<>> THEN now ELSE now + 1
        /\ Keep
        /\ tBooks' = db.books
        /\ tAuthors' = db.authors
        /\ tTags' = db.tags
  /\ rfPc' = "inserted"
  /\ ret' = NoRet
  /\ RefreshMidHist
  /\ UNCHANGED <<backend, concVars, bkVars, mgVars, seVars, coverVars, disk, corrupt, fsVars, rfBooks, rfOnDisk, rfInDB, upVars>>

\* Refresh without its stale-row pass: nothing is deleted.
StaleNone(onDisk, inDB) == {}

\* The ids Refresh deletes: the listed rows whose path the scan did not see.
Stale(onDisk, inDB) == {e[2] : e \in {x \in inDB : x[1] \notin onDisk}}

\* Refresh: rows whose file the scan did not see are deleted; Refresh returns.
SqlRefreshDeleteStale ==
  /\ backend = "sqlite"
  /\ rfPc = "inserted"
  /\ LET db == DeleteRows(DB, Stale(rfOnDisk, rfInDB))
     IN /\ tBooks' = db.books
        /\ tAuthors' = db.authors
        /\ tTags' = db.tags
  /\ rfPc' = "idle"
  /\ rfInDB' = {}
  /\ ret' = Returned("refresh", TRUE, "", NoBook, NoBook, NoUpdate)
  /\ Still
  /\ Keep
  /\ UNCHANGED <<backend, concVars, bkVars, mgVars, seVars, coverVars, disk, corrupt, fsVars, rfBooks, rfOnDisk, upVars>>
  /\ RefreshDoneHist

\* ------------------------------------------------------------------------
\* Close and reopen: the process ends, main() constructs the backend again
\* ------------------------------------------------------------------------

\* The restart steps record, in ret, the call that returned just before the
\* process ended: its id, the Book it returned (prev) and its update (u).

\* fs New(dir): loadOverrides reads .metadata.json, then the first Refresh
\* walks the root, parses every file, merges the overrides and sorts.
FsRestart ==
  /\ backend = "fs"
  /\ rfPc = "idle" /\ upPc = "idle"
  /\ Tick
  /\ Spend
  /\ LET ovs == loadOverrides(metadataFile, mfBytes)
         scanned == WalkBooks(OnDisk, disk, now + 1)
         bks == SortNewestFirst(MergeScanned(scanned, ovs))
     IN /\ overrides' = ovs
        /\ heap' = <<bks>>
        /\ blen' = Len(bks)
        /\ byID' = BuildByID(bks, 1)
        /\ authors' = BuildBuckets(bks, "authors")
        /\ tags' = BuildBuckets(bks, "tags")
  /\ ret' = Returned("restart", TRUE, ret.id, NoBook, ret.book, ret.u)
  /\ OpHist("restart", "", NoWrite)
  /\ UNCHANGED <<backend, concVars, bkVars, mgVars, seVars, coverVars, disk, corrupt, metadataFile, sqlVars, rfVars, upVars, upDuringRf>>

\* sqlite New(dir): the database file is opened as it was left, then the
\* first Refresh inserts the files it has no row for and deletes the rows
\* whose file is gone.
SqlRestart ==
  /\ backend = "sqlite"
  /\ rfPc = "idle" /\ upPc = "idle"
  /\ Spend
  /\ LET inDB == {<<tBooks[id].path, id>> : id \in DOMAIN tBooks}
         bks == NewlyDiscovered(OnDisk, inDB, disk, now + 1)
         db == DeleteRows(InsertAll(DB, bks), Stale(OnDisk, inDB))
     IN /\ now' = IF bks = <<>> THEN now ELSE now + 1
        /\ tBooks' = db.books
        /\ tAuthors' = db.authors
        /\ tTags' = db.tags
  /\ ret' = Returned("restart", TRUE, ret.id, NoBook, ret.book, ret.u)
  /\ OpHist("restart", "", NoWrite)
  /\ UNCHANGED <<backend, concVars, bkVars, mgVars, seVars, coverVars, disk, corrupt, fsVars, rfVars, upVars, upDuringRf>>

\* ------------------------------------------------------------------------
\* Specification
\* ------------------------------------------------------------------------

Next ==
  \/ \E p \in Paths : ExtRemove(p)
  \/ \E p \in Paths : StoreWrite(p)
  \/ \E id \in IDs, u \in Updates : FsUpdateBook(id, u)
  \/ \E id \in IDs : FsDeleteBook(id)
  \/ FsStoreIndex
  \/ FsRefreshScan
  \/ FsRefreshMerge
  \/ FsRefreshSwap
  \/ \E id \in IDs, u \in Updates : SqlUpdateBook(id, u)
  \/ \E id \in IDs : SqlDeleteBook(id)
  \/ SqlStoreIndex
  \/ SqlRefreshScan
  \/ SqlRefreshList
  \/ SqlRefreshInsert
  \/ SqlRefreshDeleteStale

Spec == Init /\ [][Next]_vars

\* The same operations over several runs of the process on one library root.
NextReopen ==
  \/ Next
  \/ FsRestart
  \/ SqlRestart

SpecReopen == Init /\ [][NextReopen]_vars

\* StoreBook step by step, with streams that fail and files that do not
\* parse, next to Refresh and removals from outside.
NextStore ==
  \/ \E p \in Paths : ExtRemove(p)
  \/ \E f \in Filenames : StoreReject(f)
  \/ \E p \in Paths, data \in Streams : StoreBegin(p, data)
  \/ StoreCopy
  \/ FsStoreIndex
  \/ FsRefreshScan
  \/ FsRefreshMerge
  \/ FsRefreshSwap
  \/ SqlStoreIndex
  \/ SqlRefreshScan
  \/ SqlRefreshList
  \/ SqlRefreshInsert
  \/ SqlRefreshDeleteStale

SpecStore == Init /\ [][NextStore]_vars

\* ------------------------------------------------------------------------
\* Both backends side by side: one fs.Backend and one sqlite.Backend are
\* constructed on library roots with the same files and are given the same
\* calls, one call at a time.  fsVars is the state of the first, sqlVars of
\* the second; disk stands for both roots, and a call that would make the
\* roots differ is left out.
\* ------------------------------------------------------------------------

InitBoth ==
  /\ backend = "both"
  /\ disk \in [Paths -> {Absent, 0}]
  /\ corrupt = {}
  /\ now = 0
  /\ ops = 0
  /\ LET bks == SortNewestFirst(InitialBooks(disk))
     IN /\ heap = <<bks>>
        /\ blen = Len(bks)
        /\ byID = BuildByID(bks, 1)
        /\ authors = BuildBuckets(bks, "authors")
        /\ tags = BuildBuckets(bks, "tags")
  /\ overrides = EmptyMap
  /\ metadataFile = EmptyMap
  /\ LET db == InsertAll(EmptyDB, InitialBooks(disk))
     IN /\ tBooks = db.books
        /\ tAuthors = db.authors
        /\ tTags = db.tags
  /\ rfPc = "idle" /\ rfBooks = <<>> /\ rfOnDisk = OnDisk /\ rfInDB = {}
  /\ upPc = "idle" /\ upPath = "" /\ upData = "good" /\ upErr = ""
  /\ tmpFiles = {}
  /\ covers = {} /\ ucPc = [c \in Callers |-> None] /\ ucLast = None
  /\ bdir = {} /\ bkClock = FirstBackup /\ bkRet = NoBackup
  /\ password = "secret" /\ tokens = EmptyMap /\ seClock = 0 /\ issued = 0
  /\ loggedOut = {} /\ seRet = NoRequest
  /\ mu = Unlocked /\ rfOv = FALSE /\ txFailed = 0
  /\ mfBytes = "all" /\ mfPrev = EmptyMap /\ mgFault = "none"
  /\ wall = 0 /\ nbPc = "top" /\ nbNext = 0 /\ nbSlept = 0 /\ nbCalls = <<>>
  /\ cuPc = [c \in {1, 2} |-> "idle"] /\ cuPath = [c \in {1, 2} |-> ""]
  /\ cuData = [c \in {1, 2} |-> "good"] /\ cuRet = [c \in {1, 2} |-> ""]
  /\ destBy = [p \in Paths |-> 0]
  /\ cbPc = [c \in {1, 2} |-> "idle"] /\ cbArg = [c \in {1, 2} |-> <<>>]
  /\ cbRet = [c \in {1, 2} |-> <<>>]
  /\ userVersion = currentSchemaVersion /\ columns = AllColumns /\ applied = 1
  /\ dbPc = "open" /\ mgFrom = None
  /\ ret = NoRet
  /\ lastWrite = [id \in IDs |-> NoWrite]
  /\ upDuringRf = {}
  /\ rfConc = {}
  /\ rfBefore = EmptyMap
  /\ lastObs = None
  /\ prevObs = None
  /\ upEarlier = {}

\* UpdateBook(id, u) on both.
BothUpdateBook(id, u) ==
  /\ backend = "both"
  /\ id \in DOMAIN byID /\ id \in DOMAIN tBooks
  /\ Tick
  /\ Spend
  /\ LET old == IF id \in DOMAIN overrides THEN overrides[id] ELSE NoOverride
         ovs == Put(overrides, id, MergeUpdateIntoOverride(old, u))
         ptr == byID[id]
         updated == applyOverride(Deref(ptr), ovs)
         stamped == [updated EXCEPT !.updatedAt = now + 1]
     IN /\ overrides' = ovs
        /\ metadataFile' = saveOverrides(ovs)
        /\ authors' = AddToBuckets(RemoveFromBuckets(authors, id), updated.authors, updated.id)
        /\ tags' = AddToBuckets(RemoveFromBuckets(tags, id), updated.tags, updated.id)
        /\ heap' = [heap EXCEPT ![ptr.arr][ptr.idx] = stamped]
  /\ LET bk == ApplyUpdate(SqlBookByID(id), u, now + 1)
     IN /\ NoDup(bk.authors) /\ NoDup(bk.tags)
        /\ tBooks' = [tBooks EXCEPT ![id] =
                        [@ EXCEPT !.title = bk.title, !.isRead = bk.isRead,
                                  !.rating = bk.rating, !.updatedAt = bk.updatedAt]]
        /\ tAuthors' = {r \in tAuthors : r.book # id} \cup
                       {[book |-> id, name |-> bk.authors[i], pos |-> i - 1] :
                          i \in DOMAIN bk.authors}
        /\ tTags' = {r \in tTags : r.book # id} \cup
                    {[book |-> id, tag |-> bk.tags[i]] : i \in DOMAIN bk.tags}
  /\ ret' = Returned("update", TRUE, id, NoBook, NoBook, u)
  /\ OpHist("update", id, Write("update", u))
  /\ UNCHANGED <<backend, concVars, bkVars, mgVars, seVars, coverVars, disk, corrupt, blen, byID, rfVars, upVars, upDuringRf>>

\* DeleteBook(id) on both, where both remove the same file.
BothDeleteBook(id) ==
  /\ backend = "both"
  /\ id \in DOMAIN byID /\ id \in DOMAIN tBooks
  /\ Deref(byID[id]).path = tBooks[id].path
  /\ LET bk == Deref(byID[id])
         found == {i \in 1..blen : heap[1][i].id = id}
         i0 == CHOOSE i \in found : \A j \in found : i <= j
         arr == heap[1]
         arr2 == IF found = {} THEN arr
                 ELSE [j \in DOMAIN arr |-> IF j >= i0 /\ j < blen THEN arr[j+1] ELSE arr[j]]
         len2 == IF found = {} THEN blen ELSE blen - 1
         n == Norm([heap EXCEPT ![1] = arr2], len2, Drop(byID, id))
     IN /\ disk' = [disk EXCEPT ![bk.path] = Absent]
        /\ corrupt' = corrupt \ {bk.path}
        /\ covers' = RemoveCover(covers, id, ".jpg")
        /\ authors' = RemoveFromBuckets(authors, id)
        /\ tags' = RemoveFromBuckets(tags, id)
        /\ heap' = n.heap
        /\ byID' = n.byID
        /\ blen' = len2
        /\ overrides' = Drop(overrides, id)
        /\ metadataFile' = saveOverrides(Drop(overrides, id))
  /\ LET db == DeleteRow(DB, id)
     IN /\ tBooks' = db.books
        /\ tAuthors' = db.authors
        /\ tTags' = db.tags
  /\ ret' = Returned("delete", TRUE, id, NoBook, NoBook, NoUpdate)
  /\ OpHist("delete", id, Write("delete", NoUpdate))
  /\ Still
  /\ Spend
  /\ UNCHANGED <<backend, concVars, bkVars, mgVars, seVars, ucPc, ucLast, rfVars, upVars, upDuringRf>>

\* StoreBook(p, a well-formed file) on both, from the os.Stat to the insert.
BothStoreBook(p) ==
  /\ backend = "both"
  /\ ~Exists(disk, p)
  /\ Tick
  /\ Spend
  /\ disk' = [disk EXCEPT ![p] = now + 1]
  /\ LET parsed == Val(Parse(p, now + 1, now + 1))
         book == applyOverride(parsed, overrides)
         h2 == <<(<<book>> \o FsAllBooks)>> \o heap
         moved == [x \in DOMAIN byID |-> [arr |-> byID[x].arr + 1, idx |-> byID[x].idx]]
         n == Norm(h2, blen + 1, Put(moved, book.id, [arr |-> 1, idx |-> 1]))
         db == insertBook(DB, parsed)
     IN /\ heap' = n.heap
        /\ byID' = n.byID
        /\ blen' = blen + 1
        /\ authors' = AddToBuckets(authors, book.authors, book.id)
        /\ tags' = AddToBuckets(tags, book.tags, book.id)
        /\ tBooks' = db.books
        /\ tAuthors' = db.authors
        /\ tTags' = db.tags
  /\ ret' = Returned("upload", TRUE, PathToID(p), NoBook, NoBook, NoUpdate)
  /\ OpHist("upload", PathToID(p), Write("upload", NoUpdate))
  /\ UNCHANGED <<backend, concVars, bkVars, mgVars, seVars, coverVars, corrupt, overrides, metadataFile, rfVars, upVars, upDuringRf>>

\* Refresh() on both, each pass from its scan to its return.
BothRefresh ==
  /\ backend = "both"
  /\ Tick
  /\ Spend
  /\ LET bks == SortNewestFirst(MergeScanned(WalkBooks(OnDisk, disk, now + 1), overrides))
     IN /\ heap' = <<bks>>
        /\ blen' = Len(bks)
        /\ byID' = BuildByID(bks, 1)
        /\ authors' = BuildBuckets(bks, "authors")
        /\ tags' = BuildBuckets(bks, "tags")
  /\ LET inDB == {<<tBooks[id].path, id>> : id \in DOMAIN tBooks}
         db == DeleteRows(InsertAll(DB, NewlyDiscovered(OnDisk, inDB, disk, now + 1)),
                          Stale(OnDisk, inDB))
     IN /\ tBooks' = db.books
        /\ tAuthors' = db.authors
        /\ tTags' = db.tags
  /\ ret' = Returned("refresh", TRUE, "", NoBook, NoBook, NoUpdate)
  /\ OpHist("refresh", "", NoWrite)
  /\ UNCHANGED <<backend, concVars, bkVars, mgVars, seVars, coverVars, disk, corrupt, overrides, metadataFile, rfVars, upVars, upDuringRf>>

NextBoth ==
  \/ \E p \in Paths : ExtRemove(p)
  \/ \E id \in IDs, u \in Updates : BothUpdateBook(id, u)
  \/ \E id \in IDs : BothDeleteBook(id)
  \/ \E p \in Paths : BothStoreBook(p)
  \/ BothRefresh

SpecBoth == InitBoth /\ [][NextBoth]_vars

\* ------------------------------------------------------------------------
\* sqlite UpdateCover and DeleteBook on the covers directory
\* ------------------------------------------------------------------------

\* UpdateCover, first half: the cover files of id are removed.
UpdateCoverRemove(c, id, ext, data) ==
  /\ backend = "sqlite"
  /\ ucPc[c] = None
  /\ Still
  /\ Spend
  /\ covers' = RemoveOldCovers(covers, id)
  /\ ucPc' = [ucPc EXCEPT ![c] = Some([id |-> id, ext |-> ext, data |-> data])]
  /\ ret' = NoRet
  /\ OpHist("cover", "", NoWrite)
  /\ UNCHANGED <<backend, concVars, bkVars, mgVars, seVars, disk, corrupt, fsVars, sqlVars, rfVars, upVars, ucLast, upDuringRf>>

\* UpdateCover, second half: os.Create(id+ext) truncates or creates the
\* file, the stream is copied into it, and the UPDATE sets cover_url and
\* thumbnail_url of the row of id, if there is one.
UpdateCoverWrite(c) ==
  /\ backend = "sqlite"
  /\ ucPc[c] # None
  /\ LET a == Val(ucPc[c])
     IN /\ covers' = RemoveCover(covers, a.id, a.ext) \cup {a}
        /\ tBooks' = [x \in DOMAIN tBooks |->
                        IF x = a.id
                        THEN [tBooks[x] EXCEPT !.coverURL = CoverURLOf(a.id),
                                               !.thumbnailURL = CoverURLOf(a.id)]
                        ELSE tBooks[x]]
        /\ ucLast' = Some(a)
        /\ ret' = Returned("cover", TRUE, a.id, NoBook, NoBook, NoUpdate)
        /\ OpHist("cover", a.id, lastWrite[a.id])
  /\ ucPc' = [ucPc EXCEPT ![c] = None]
  /\ Still
  /\ Keep
  /\ UNCHANGED <<backend, concVars, bkVars, mgVars, seVars, disk, corrupt, fsVars, tAuthors, tTags, rfVars, upVars, upDuringRf>>

InitCovers == Init /\ backend = "sqlite"

NextCovers ==
  \/ \E c \in Callers, id \in IDs, ext \in Exts, data \in Images :
       UpdateCoverRemove(c, id, ext, data)
  \/ \E c \in Callers : UpdateCoverWrite(c)
  \/ \E id \in IDs : SqlDeleteBook(id)

SpecCovers == InitCovers /\ [][NextCovers]_vars

\* ------------------------------------------------------------------------
\* sqlite Backup
\* ------------------------------------------------------------------------

\* Somebody outside the program puts an entry into the backup directory.
ExtPlace(n) ==
  /\ n \notin bdir
  /\ bdir' = bdir \cup {n}
  /\ bkRet' = NoBackup
  /\ UNCHANGED <<backend, concVars, mgVars, seVars, bkClock, disk, corrupt, now, ops, fsVars, sqlVars, rfVars, upVars,
                 coverVars, ret, histVars>>

\* Backup(destDir, keep) in second t of the clock.  VACUUM INTO fails when
\* the destination file exists; listFails is os.ReadDir failing in
\* pruneBackups.
BackupCall(keep, t, listFails) ==
  /\ backend = "sqlite"
  /\ t \in DOMAIN BkStamps /\ t \in {bkClock, bkClock + 1}
  /\ keep > 0 \/ ~listFails
  /\ Spend
  /\ bkClock' = t
  /\ LET name == BkStamps[t]
         written == bdir \cup {name}
     IN IF name \in bdir
        THEN /\ bdir' = bdir
             /\ bkRet' = BackupReturned([path |-> "", err |-> "vacuum into"],
                                        keep, bdir, FALSE)
        ELSE IF keep > 0 /\ listFails
        THEN /\ bdir' = written
             /\ bkRet' = BackupReturned(PruneErrorReturn(name), keep, bdir, TRUE)
        ELSE /\ bdir' = IF keep > 0 THEN pruneBackups(written, keep) ELSE written
             /\ bkRet' = BackupReturned([path |-> name, err |-> ""], keep, bdir, FALSE)

Backup(keep, t, listFails) ==
  /\ BackupCall(keep, t, listFails)
  /\ UNCHANGED <<backend, concVars, mgVars, seVars, disk, corrupt, now, fsVars, sqlVars, rfVars, upVars,
                 coverVars, ret, histVars>>

InitBackup == Init /\ backend = "sqlite" /\ disk = [p \in Paths |-> Absent]

NextBackup ==
  \/ \E n \in BkNames : ExtPlace(n)
  \/ \E keep \in Keeps, t \in DOMAIN BkStamps, listFails \in BOOLEAN :
       Backup(keep, t, listFails)

SpecBackup == InitBackup /\ [][NextBackup]_vars

\* ------------------------------------------------------------------------
\* sqlite New on an existing store
\* ------------------------------------------------------------------------

\* The rows an earlier release of the program left in the store: one per
\* file it had indexed, the one of a.epub marked read and rated.
LegacyRows(had, cols) ==
  LET db == InsertAll(EmptyDB, InitialBooks(had))
      edited == [id \in DOMAIN db.books |->
                   IF id = "id_a"
                   THEN [db.books[id] EXCEPT !.isRead = TRUE, !.rating = 3]
                   ELSE db.books[id]]
  IN [db EXCEPT !.books = [id \in DOMAIN edited |-> WithoutColumns(edited[id], cols)]]

\* A closed store that was never versioned: no table at all, or the tables
\* of an earlier release, which may lack the columns added later.
InitMigrate ==
  /\ backend = "sqlite"
  /\ disk \in [Paths -> {Absent, 0}]
  /\ corrupt = {}
  /\ now = 0
  /\ ops = 0
  /\ heap = <<<<>>>> /\ blen = 0 /\ byID = EmptyMap
  /\ authors = EmptyMap /\ tags = EmptyMap
  /\ overrides = EmptyMap
  /\ metadataFile = EmptyMap
  /\ userVersion = 0
  /\ columns \in {{}} \cup {AllColumns \ lacking : lacking \in SUBSET LaterAdded}
  /\ \E had \in [Paths -> {Absent, 0}] :
       LET db == IF columns = {} THEN EmptyDB ELSE LegacyRows(had, columns)
       IN /\ tBooks = db.books
          /\ tAuthors = db.authors
          /\ tTags = db.tags
  /\ applied = 0 /\ dbPc = "closed" /\ mgFrom = None
  /\ rfPc = "idle" /\ rfBooks = <<>> /\ rfOnDisk = OnDisk /\ rfInDB = {}
  /\ upPc = "idle" /\ upPath = "" /\ upData = "good" /\ upErr = ""
  /\ tmpFiles = {}
  /\ covers = {} /\ ucPc = [c \in Callers |-> None] /\ ucLast = None
  /\ bdir = {} /\ bkClock = FirstBackup /\ bkRet = NoBackup
  /\ password = "secret" /\ tokens = EmptyMap /\ seClock = 0 /\ issued = 0
  /\ loggedOut = {} /\ seRet = NoRequest
  /\ mu = Unlocked /\ rfOv = FALSE /\ txFailed = 0
  /\ mfBytes = "all" /\ mfPrev = EmptyMap /\ mgFault = "none"
  /\ wall = 0 /\ nbPc = "top" /\ nbNext = 0 /\ nbSlept = 0 /\ nbCalls = <<>>
  /\ cuPc = [c \in {1, 2} |-> "idle"] /\ cuPath = [c \in {1, 2} |-> ""]
  /\ cuData = [c \in {1, 2} |-> "good"] /\ cuRet = [c \in {1, 2} |-> ""]
  /\ destBy = [p \in Paths |-> 0]
  /\ cbPc = [c \in {1, 2} |-> "idle"] /\ cbArg = [c \in {1, 2} |-> <<>>]
  /\ cbRet = [c \in {1, 2} |-> <<>>]
  /\ ret = NoRet
  /\ lastWrite = [id \in IDs |-> NoWrite]
  /\ upDuringRf = {}
  /\ rfConc = {}
  /\ rfBefore = EmptyMap
  /\ lastObs = None
  /\ prevObs = None
  /\ upEarlier = {}

\* New, first half: migrateSchema reads PRAGMA user_version, applies the
\* migrations that are pending and sets the version after each.
OpenMigrate ==
  /\ backend = "sqlite"
  /\ dbPc = "closed"
  /\ Spend
  /\ IF Pending(1, userVersion)
     THEN LET m == migration1(columns, tBooks)
          IN /\ columns' = m.columns
             /\ tBooks' = m.books
             /\ userVersion' = 1
             /\ applied' = applied + 1
             /\ mgFrom' = Some([version |-> userVersion, columns |-> columns,
                                books |-> tBooks, authors |-> tAuthors, tags |-> tTags])
     ELSE /\ mgFrom' = None
          /\ UNCHANGED <<columns, tBooks, userVersion, applied>>
  /\ dbPc' = "migrated"
  /\ ret' = NoRet
  /\ OpHist("open", "", NoWrite)
  /\ UNCHANGED <<backend, concVars, bkVars, seVars, coverVars, disk, corrupt, now, fsVars, tAuthors, tTags,
                 rfVars, upVars, upDuringRf>>

\* New, second half: the first Refresh, after which New returns.
OpenRefresh ==
  /\ backend = "sqlite"
  /\ dbPc = "migrated"
  /\ Keep
  /\ LET inDB == {<<tBooks[id].path, id>> : id \in DOMAIN tBooks}
         bks == NewlyDiscovered(OnDisk, inDB, disk, now + 1)
         db == DeleteRows(InsertAll(DB, bks), Stale(OnDisk, inDB))
     IN /\ now' = IF bks = <<>> THEN now ELSE now + 1
        /\ tBooks' = db.books
        /\ tAuthors' = db.authors
        /\ tTags' = db.tags
  /\ dbPc' = "open"
  /\ ret' = Returned("open", TRUE, "", NoBook, NoBook, NoUpdate)
  /\ OpHist("open", "", NoWrite)
  /\ UNCHANGED <<backend, concVars, bkVars, seVars, coverVars, disk, corrupt, fsVars, rfVars, upVars,
                 upDuringRf, userVersion, columns, applied, mgFrom>>

\* Close: the Backend is given up, the store file stays.
Close ==
  /\ backend = "sqlite"
  /\ dbPc = "open"
  /\ Keep
  /\ Still
  /\ dbPc' = "closed"
  /\ ret' = NoRet
  /\ OpHist("close", "", NoWrite)
  /\ UNCHANGED <<backend, concVars, bkVars, seVars, coverVars, disk, corrupt, fsVars, sqlVars, rfVars, upVars,
                 upDuringRf, userVersion, columns, applied, mgFrom>>

\* UpdateBook on the opened store.
OpenedUpdateBook(id, u) == dbPc = "open" /\ SqlUpdateBook(id, u)

NextMigrate ==
  \/ OpenMigrate
  \/ OpenRefresh
  \/ Close
  \/ \E id \in IDs, u \in Updates : OpenedUpdateBook(id, u)

SpecMigrate == InitMigrate /\ [][NextMigrate]_vars

\* ------------------------------------------------------------------------
\* HTTP server: login, logout and the requests behind authMiddleware
\* ------------------------------------------------------------------------

\* server.New, with or without a password.
InitAuth ==
  /\ backend = "fs"
  /\ disk = [p \in Paths |-> Absent]
  /\ corrupt = {}
  /\ now = 0
  /\ ops = 0
  /\ heap = <<<<>>>> /\ blen = 0 /\ byID = EmptyMap
  /\ authors = EmptyMap /\ tags = EmptyMap
  /\ overrides = EmptyMap
  /\ metadataFile = EmptyMap
  /\ tBooks = EmptyMap /\ tAuthors = {} /\ tTags = {}
  /\ userVersion = 0 /\ columns = {} /\ applied = 0 /\ dbPc = "closed" /\ mgFrom = None
  /\ rfPc = "idle" /\ rfBooks = <<>> /\ rfOnDisk = {} /\ rfInDB = {}
  /\ upPc = "idle" /\ upPath = "" /\ upData = "good" /\ upErr = ""
  /\ tmpFiles = {}
  /\ covers = {} /\ ucPc = [c \in Callers |-> None] /\ ucLast = None
  /\ bdir = {} /\ bkClock = FirstBackup /\ bkRet = NoBackup
  /\ password \in {"", "secret"}
  /\ tokens = EmptyMap /\ seClock = 0 /\ issued = 0
  /\ loggedOut = {} /\ seRet = NoRequest
  /\ mu = Unlocked /\ rfOv = FALSE /\ txFailed = 0
  /\ mfBytes = "all" /\ mfPrev = EmptyMap /\ mgFault = "none"
  /\ wall = 0 /\ nbPc = "top" /\ nbNext = 0 /\ nbSlept = 0 /\ nbCalls = <<>>
  /\ cuPc = [c \in {1, 2} |-> "idle"] /\ cuPath = [c \in {1, 2} |-> ""]
  /\ cuData = [c \in {1, 2} |-> "good"] /\ cuRet = [c \in {1, 2} |-> ""]
  /\ destBy = [p \in Paths |-> 0]
  /\ cbPc = [c \in {1, 2} |-> "idle"] /\ cbArg = [c \in {1, 2} |-> <<>>]
  /\ cbRet = [c \in {1, 2} |-> <<>>]
  /\ ret = NoRet
  /\ lastWrite = [id \in IDs |-> NoWrite]
  /\ upDuringRf = {}
  /\ rfConc = {}
  /\ rfBefore = EmptyMap
  /\ lastObs = None
  /\ prevObs = None
  /\ upEarlier = {}

\* POST /login with the form value pw: when the password is right (or none
\* is configured) sessions.create stores a new token with its expiry.
LoginPost(pw) ==
  /\ Spend
  /\ IF password = "" \/ pw = password
     THEN /\ issued' = issued + 1
          /\ tokens' = Put(tokens, issued + 1, seClock + sessionDuration)
          /\ seRet' = [NoRequest EXCEPT !.kind = "login", !.cookie = issued + 1,
                                       !.outcome = "redirect"]
     ELSE /\ seRet' = [NoRequest EXCEPT !.kind = "login", !.outcome = "form"]
          /\ UNCHANGED <<issued, tokens>>
  /\ UNCHANGED <<backend, concVars, bkVars, mgVars, coverVars, disk, corrupt, now, fsVars, sqlVars,
                 rfVars, upVars, ret, histVars, password, seClock, loggedOut>>

\* /logout with the session cookie c (0: none): the token is deleted.
Logout(c) ==
  /\ Spend
  /\ tokens' = IF c # 0 THEN delete(tokens, c) ELSE tokens
  /\ loggedOut' = IF c # 0 /\ valid(tokens, seClock, c) THEN loggedOut \cup {c} ELSE loggedOut
  /\ seRet' = [NoRequest EXCEPT !.kind = "logout", !.cookie = c, !.outcome = "redirect"]
  /\ UNCHANGED <<backend, concVars, bkVars, mgVars, coverVars, disk, corrupt, now, fsVars, sqlVars,
                 rfVars, upVars, ret, histVars, password, seClock, issued>>

\* A request r to a route behind authMiddleware.
Request(r) ==
  /\ ops' = ops
  /\ tokens' = IF password # "" /\ r.cookie # 0
               THEN AfterValid(tokens, seClock, r.cookie) ELSE tokens
  /\ seRet' = [kind |-> "request", cookie |-> r.cookie, basic |-> r.basic,
               api |-> r.api, html |-> r.html,
               outcome |-> authMiddleware(password, tokens, seClock, r)]
  /\ UNCHANGED <<backend, concVars, bkVars, mgVars, coverVars, disk, corrupt, now, fsVars, sqlVars,
                 rfVars, upVars, ret, histVars, password, seClock, issued, loggedOut>>

\* Time passes.
SessionTick ==
  /\ Spend
  /\ seClock' = seClock + 1
  /\ seRet' = NoRequest
  /\ UNCHANGED <<backend, concVars, bkVars, mgVars, coverVars, disk, corrupt, now, fsVars, sqlVars,
                 rfVars, upVars, ret, histVars, password, tokens, issued, loggedOut>>

NextAuth ==
  \/ \E pw \in {"secret", "wrong"} : LoginPost(pw)
  \/ \E c \in 0..MaxOps : Logout(c)
  \/ \E r \in Requests : Request(r)
  \/ SessionTick

SpecAuth == InitAuth /\ [][NextAuth]_vars

\* ------------------------------------------------------------------------
\* fs backend under uploads, updates and deletes only
\* ------------------------------------------------------------------------

InitFsWrites == Init /\ backend = "fs"

NextFsWrites ==
  \/ \E p \in Paths : StoreWrite(p)
  \/ FsStoreIndex
  \/ \E id \in IDs, u \in Updates : FsUpdateBook(id, u)
  \/ \E id \in IDs : FsDeleteBook(id)

SpecFsWrites == InitFsWrites /\ [][NextFsWrites]_vars

\* ------------------------------------------------------------------------
\* Uploads and refreshes only
\* ------------------------------------------------------------------------

NextUploadRefresh ==
  \/ \E p \in Paths, data \in Streams : StoreBegin(p, data)
  \/ StoreCopy
  \/ FsStoreIndex
  \/ FsRefreshScan
  \/ FsRefreshMerge
  \/ FsRefreshSwap
  \/ SqlStoreIndex
  \/ SqlRefreshScan
  \/ SqlRefreshList
  \/ SqlRefreshInsert
  \/ SqlRefreshDeleteStale

SpecUploadRefresh == Init /\ [][NextUploadRefresh]_vars

\* ------------------------------------------------------------------------
\* Properties
\* ------------------------------------------------------------------------

IdsOf(books) == {books[i].id : i \in DOMAIN books}
Listed(id) == id \in IdsOf(AllBooks)
InAuthorFacet(id, n) == id \in IdsOf(BooksByAuthor(n))
InTagFacet(id, t) == id \in IdsOf(BooksByTag(t))
InSomeFacet(id) ==
  \/ \E n \in Names : InAuthorFacet(id, n)
  \/ \E t \in TagNames : InTagFacet(id, t)
Quiet == rfPc = "idle" /\ upPc = "idle"

\* C1: in both backends, when delete(id) has returned success, book_by_id(id)
\* is NotFound and neither books_by_author nor books_by_tag returns a book
\* with that id, for any name.
C1_DeletedIsGone ==
  (ret.op = "delete" /\ ret.ok) => (~IsIndexed(ret.id) /\ ~InSomeFacet(ret.id))

\* Every field present in the override record of id equals the field of the
\* Book that book_by_id(id) returns.
OverrideReflected(id) ==
  LET ov == overrides[id]
      bk == BookByID(id)
  IN /\ Present(ov.title) => bk.title = Val(ov.title)
     /\ Present(ov.authors) => bk.authors = Val(ov.authors)
     /\ Present(ov.tags) => bk.tags = Val(ov.tags)
     /\ Present(ov.isRead) => bk.isRead = Val(ov.isRead)

\* C2: fs backend: when a Refresh returns that no update_book call ran
\* into (the updates came before the pass), every indexed id that has an
\* override record shows every field present in that record through
\* book_by_id(id).
C2_OverridesReflected ==
  (backend = "fs" /\ ret.op = "refresh" /\ "update" \notin rfConc)
    => \A id \in DOMAIN overrides : IsIndexed(id) => OverrideReflected(id)

\* C2 happens: a Refresh that followed an update returned, and an indexed
\* book carries an override title that differs from the title in its file.
C2_Witness ==
  /\ backend = "fs" /\ ret.op = "refresh" /\ "update" \notin rfConc
  /\ \E id \in DOMAIN overrides :
       /\ IsIndexed(id) /\ disk[PathOf(id)] # Absent
       /\ Present(overrides[id].title)
       /\ Val(overrides[id].title) # Val(Parse(PathOf(id), disk[PathOf(id)], now)).title
       /\ BookByID(id).title = Val(overrides[id].title)

\* The book of id shows every field present in update u.
UpdateReflected(id, u) ==
  LET bk == BookByID(id)
  IN /\ IsIndexed(id)
     /\ Present(u.title) => bk.title = Val(u.title)
     /\ Present(u.authors) => bk.authors = Val(u.authors)
     /\ Present(u.tags) => bk.tags = Val(u.tags)
     /\ Present(u.isRead) => bk.isRead = Val(u.isRead)
     /\ Present(u.rating) => bk.rating = Val(u.rating)

\* C3: once an upload, update or delete of a book has returned success,
\* every later read reflects it (the uploaded book is listed, the updated
\* values are returned, the deleted book is absent) until the next write to
\* that book, whatever a running Refresh does in between.
C3_WritesVisible ==
  \A id \in IDs :
    /\ lastWrite[id].kind = "upload" => (IsIndexed(id) /\ Listed(id))
    /\ lastWrite[id].kind = "update" => UpdateReflected(id, lastWrite[id].u)
    /\ lastWrite[id].kind = "delete" => (~IsIndexed(id) /\ ~Listed(id))

\* C4: fs backend: when a Refresh returns, every book whose StoreBook call
\* completed while the pass was running (before the swap took the lock),
\* and whose file is still there, is in all_books and found by book_by_id.
C4_UploadSurvivesSwap ==
  (backend = "fs" /\ ret.op = "refresh")
    => \A id \in upDuringRf :
         disk[PathOf(id)] # Absent => (IsIndexed(id) /\ Listed(id))

\* C5: in both backends, when a Refresh returns and nothing but that pass
\* has run since the previous pass returned, the reads show the index the
\* previous pass left: same books, same field values, same order, same
\* facets.
C5_RefreshIdempotent ==
  (ret.op = "refresh" /\ Present(prevObs)) => Observe = Val(prevObs)

\* C6: when a Refresh returns that ran alone, every book that was indexed
\* when the pass began and whose file is on disk has every field value it
\* had when the pass began.
C6_KnownBooksUntouched ==
  (ret.op = "refresh" /\ rfConc = {})
    => \A id \in DOMAIN rfBefore :
         PathOf(id) \in rfOnDisk => (IsIndexed(id) /\ BookByID(id) = rfBefore[id])

\* The book of id is nowhere in the index.
Gone(id) == ~IsIndexed(id) /\ ~Listed(id) /\ ~InSomeFacet(id)

C8_FacetsMatchBooks ==
  Quiet =>
    \A id \in IDs :
      /\ \A n \in Names :
           InAuthorFacet(id, n) <=> (IsIndexed(id) /\ n \in Range(BookByID(id).authors))
      /\ \A t \in TagNames :
           InTagFacet(id, t) <=> (IsIndexed(id) /\ t \in Range(BookByID(id).tags))

\* added_at descending, ties by title ascending without regard to case.
DefaultSorted(books) ==
  \A i, j \in DOMAIN books : i < j => ~DefaultLess(books[j], books[i])

\* C9: in both backends, after every mutation (refresh, upload, update,
\* delete) has returned, all_books is in the default order.
C9_AllBooksSorted ==
  (ret.op \in {"refresh", "upload", "update", "delete"} /\ ret.ok)
    => DefaultSorted(AllBooks)

\* The value update u gives a field, or the previous value if u leaves it.
Merged(o, prev) == IF Present(o) THEN Val(o) ELSE prev

\* C10: in both backends, the Book update_book(id, u) returns has u's value
\* in every field present in u (an empty string, an empty list and a
\* rating included) and the previous value in every other field, and
\* book_by_id(id) right after returns the same values.
C10_UpdateReturnsMerged ==
  (ret.op = "update" /\ ret.ok) =>
    LET b == ret.book
        r == BookByID(ret.id)
    IN /\ b.title = Merged(ret.u.title, ret.prev.title)
       /\ b.authors = Merged(ret.u.authors, ret.prev.authors)
       /\ b.tags = Merged(ret.u.tags, ret.prev.tags)
       /\ b.isRead = Merged(ret.u.isRead, ret.prev.isRead)
       /\ b.rating = Merged(ret.u.rating, ret.prev.rating)
       /\ r.title = b.title /\ r.authors = b.authors /\ r.tags = b.tags
       /\ r.isRead = b.isRead /\ r.rating = b.rating

\* C11: in both backends, when the store is closed and reopened right after
\* a successful update_book(id, u), the book's file still being in the
\* library root, book_by_id(id) returns the Book that the update returned,
\* field for field.
C11_UpdateSurvivesReopen ==
  (ret.op = "restart" /\ ret.u # NoUpdate /\ ret.prev # NoBook
     /\ disk[PathOf(ret.id)] # Absent)
    => BookByID(ret.id) = ret.prev

\* C12: in both backends, a StoreBook call whose byte stream fails before
\* its end changes nothing that the read operations show, in any of its
\* steps, and when it returns it returns an error and no file is at its
\* destination.
C12_BrokenStreamLeavesNothing ==
  [][(upData' = "broken" /\ upPc' # upPc)
       => /\ Observe' = Observe
          /\ upPc' = "idle" => (~ret'.ok /\ disk'[upPath] = Absent)]_vars

\* C12 happens: a StoreBook call on a non-empty index has returned the
\* write error, and no file is at its destination.
C12_Witness ==
  /\ ret.op = "upload" /\ ~ret.ok /\ upErr = "write upload" /\ upData = "broken"
  /\ disk[PathOf(ret.id)] = Absent
  /\ IndexedIDs # {}

\* The step in which StoreBook, after the rename, finds that the file does
\* not parse: it returns the parse error and changes neither the files nor
\* what the reads show.
ParseFailureLeavesFile ==
  (upPc = "renamed" /\ upPc' = "idle" /\ Parse(upPath, disk[upPath], now + 1) = None)
    => /\ ret'.op = "upload" /\ ~ret'.ok /\ upErr' = "parse epub"
       /\ disk' = disk /\ corrupt' = corrupt
       /\ upPath \in corrupt => disk'[upPath] # Absent
       /\ Observe' = Observe

\* The parsing step of a Refresh that runs alone while no StoreBook call is
\* running: every unreadable EPUB of the library root (each was left there
\* by a StoreBook call that returned the parse error) is among the files
\* the pass hands to the parser (fs: every file the walk finds; sqlite: the
\* files of the insert loop).
UnreadableTriedAgain ==
  /\ (backend = "fs" /\ upPc = "idle" /\ rfPc = "idle" /\ rfPc' = "scanned")
       => \A p \in corrupt : IsEpub(p) => p \in rfOnDisk'
  /\ (backend = "sqlite" /\ upPc = "idle" /\ rfPc = "listed" /\ rfPc' = "inserted"
        /\ rfConc = {})
       => \A p \in corrupt : IsEpub(p) => p \in NewFiles(rfOnDisk, rfInDB)

\* C13: in both backends, when parsing fails after the uploaded file has been
\* renamed to its destination, StoreBook returns the parse error, the file
\* stays where it is, the index is as it was, and every later Refresh pass
\* hands the file to the parser again.
C13_ParseFailureKeepsFile ==
  [][ParseFailureLeavesFile /\ UnreadableTriedAgain]_vars

\* The step in which StoreBook is called with file name p.
Called(p) ==
  /\ upPc = "idle"
  /\ \/ upPc' = "temp" /\ upPath' = p
     \/ upPc' = "idle" /\ ret'.op = "upload" /\ ret'.id = PathToID(p)

\* C14: in both backends, a StoreBook call whose destination exists returns
\* the duplicate error at once; the files of the library root and what the
\* reads show are as before the call.
C14_DuplicateRejected ==
  [][\A p \in Paths :
       (Called(p) /\ disk[p] # Absent)
         => /\ upPc' = "idle" /\ ~ret'.ok /\ upErr' = "already exists"
            /\ disk' = disk /\ corrupt' = corrupt /\ tmpFiles' = tmpFiles
            /\ Observe' = Observe]_vars

\* C14 happens: StoreBook has returned the duplicate error for a file that
\* is on disk and indexed.
C14_Witness ==
  /\ ret.op = "upload" /\ ~ret.ok /\ upErr = "already exists"
  /\ disk[PathOf(ret.id)] # Absent /\ IsIndexed(ret.id)

\* C15: in both backends, when StoreBook has returned, with a Book or with
\* an error, the temporary file of the call is not in the library root.
C15_NoTempFileLeft ==
  ret.op = "upload" => TempName \notin tmpFiles

\* C15 happens: a StoreBook call that had created its temporary file has
\* returned an error, and the library root holds no temporary file.
C15_Witness ==
  /\ ret.op = "upload" /\ ~ret.ok /\ upErr \in {"write upload", "parse epub"}
  /\ tmpFiles = {}

\* The files found by the scan of the pass that do not parse.
BadScanned == {p \in rfOnDisk : Parse(p, disk[p], now) = None}

\* The steps of a running Refresh.
RefreshStep ==
  \/ FsRefreshMerge
  \/ FsRefreshSwap
  \/ SqlRefreshList
  \/ SqlRefreshInsert
  \/ SqlRefreshDeleteStale

IndexedAuthors == UNION {Range(BookByID(id).authors) : id \in IndexedIDs}
IndexedTags == UNION {Range(BookByID(id).tags) : id \in IndexedIDs}

\* Listing l names every element of S once, in case-insensitive order.
ListsInOrder(l, S) ==
  /\ NoDup(l)
  /\ Range(l) = S
  /\ \A i, j \in DOMAIN l : i < j => ~LowerLess(l[j], l[i])

\* C18: in both backends, whenever no operation is running, every listing
\* authors() can return names each author of the indexed books once, in
\* case-insensitive order, with total the number of those names, and the
\* first page of one call followed by the rest of another call lists every
\* name once; likewise for tags().
C18_FacetListings ==
  Quiet =>
    /\ \A l \in Authors : ListsInOrder(l, IndexedAuthors) /\ Len(l) = Cardinality(IndexedAuthors)
    /\ \A l \in Tags : ListsInOrder(l, IndexedTags) /\ Len(l) = Cardinality(IndexedTags)
    /\ \A l1, l2 \in Authors :
         ListsInOrder(Page(l1, 0, 1) \o Page(l2, 1, Len(l2)), IndexedAuthors)
    /\ \A l1, l2 \in Tags :
         ListsInOrder(Page(l1, 0, 1) \o Page(l2, 1, Len(l2)), IndexedTags)

\* C17: an fs backend and a sqlite backend constructed on the same library
\* and given the same upload, update, delete and refresh calls answer every
\* read alike: all_books, book_by_id, books_by_author, books_by_tag, the
\* listings authors and tags can return, and search for every query return
\* the same books with the same field values in the same order.
C17_SameReads ==
  backend = "both" =>
    /\ FsAllBooks = SqlAllBooks
    /\ \A id \in IDs : FsBookByID(id) = SqlBookByID(id)
    /\ \A n \in Names : FsBooksByAuthor(n) = SqlBooksByAuthor(n)
    /\ \A t \in TagNames : FsBooksByTag(t) = SqlBooksByTag(t)
    /\ FsAuthors = SqlAuthors
    /\ FsTags = SqlTags
    /\ \A q \in Queries : FsSearch(q) = SqlSearch(q)

\* The cover files of id that CoverPath can find.
KnownCovers(id) == {f \in covers : f.id = id /\ f.ext \in KnownExts}

\* C19: when delete(id) has returned success, the book's file is not on
\* disk and the covers directory holds no file id+ext for any known image
\* extension, a cover stored by update_cover included.
C19_DeleteRemovesCovers ==
  (ret.op = "delete" /\ ret.ok)
    => (disk[ret.prev.path] = Absent /\ CoverPath(covers, ret.id) = None)

\* C20: when update_cover(id, stream, ext) has returned success, the covers
\* directory holds exactly one file for id among the known image
\* extensions, id+ext with the bytes of the stream, and if id is indexed
\* its cover_url and thumbnail_url are both /covers/id.
C20_OneCoverAfterUpdate ==
  (ret.op = "cover" /\ ret.ok)
    => /\ KnownCovers(ret.id) = {Val(ucLast)}
       /\ IsIndexed(ret.id)
            => /\ BookByID(ret.id).coverURL = CoverURLOf(ret.id)
               /\ BookByID(ret.id).thumbnailURL = CoverURLOf(ret.id)

\* The files of the backup directory whose name starts with catalog- and
\* ends with .db.
Snapshots(d) ==
  d \ {"catalog-20240102-000000.db.bak", "catalog-archive.db", "catalog.db"}

MostRecent(S, keep) ==
  {n \in S : Cardinality({m \in S : \E i, j \in DOMAIN BkOrder :
                             BkOrder[i] = n /\ BkOrder[j] = m /\ i < j}) < keep}

\* C22: when backup(dest_dir, keep) with keep > 0 has returned without an
\* error, the snapshots in dest_dir are exactly the keep most recent ones by
\* name of those that were there and the new one, and the new one is among
\* them.
C22_KeepsNewest ==
  (bkRet.called /\ bkRet.err = "" /\ bkRet.keep > 0)
    => /\ Snapshots(bdir) = MostRecent(Snapshots(bkRet.before) \cup {bkRet.path}, bkRet.keep)
       /\ bkRet.path \in bdir

\* C23: when pruning fails after the snapshot was written, the
\* backup still counts as successful (no error comes back and the nightly
\* loop logs the snapshot as created), the snapshot exists and its path is
\* returned.
C23_PruneErrorNotFatal ==
  bkRet.pruneFailed
    => /\ bkRet.err = "" /\ bkRet.log = "nightly backup created"
       /\ bkRet.path # "" /\ bkRet.path \in bdir

\* The row of id holds, in every column the store had before the migration,
\* the value it held then, and the book has the authors and tags it had.
RowIntact(from, id) ==
  /\ id \in DOMAIN tBooks
  /\ tBooks[id].path = from.books[id].path
  /\ tBooks[id].title = from.books[id].title
  /\ tBooks[id].isRead = from.books[id].isRead
  /\ tBooks[id].updatedAt = from.books[id].updatedAt
  /\ tBooks[id].coverURL = from.books[id].coverURL
  /\ "added_at" \in from.columns => tBooks[id].addedAt = from.books[id].addedAt
  /\ "rating" \in from.columns => tBooks[id].rating = from.books[id].rating
  /\ {r \in tAuthors : r.book = id} = {r \in from.authors : r.book = id}
  /\ {r \in tTags : r.book = id} = {r \in from.tags : r.book = id}
  /\ SqlBookByID(id).id = id /\ SqlBookByID(id).title = from.books[id].title
  /\ SqlBookByID(id).rating \in 0..5

C26_LogoutRevokes ==
  /\ \A c \in loggedOut : c \notin DOMAIN tokens
  /\ (password # "" /\ seRet.kind = "request" /\ seRet.cookie \in loggedOut
        /\ seRet.basic # password)
       => seRet.outcome \in {"redirect", "401"}

\* C26 witness: a request with the token of a session that was logged out
\* has been turned away, on a server with a password.
C26_Witness ==
  /\ password # "" /\ seRet.kind = "request" /\ seRet.cookie \in loggedOut
  /\ seRet.basic = "" /\ seRet.outcome = "401"

\* The entries of all_books with the id.
EntriesOf(id) == {i \in DOMAIN FsAllBooks : FsAllBooks[i].id = id}

\* C27: in the fs backend, for every indexed id, book_by_id(id) returns a
\* book with that id, all_books has exactly one entry with that id, and the
\* two are equal, so that an update made through the id map shows in
\* all_books.
C27_IdMapMatchesVector ==
  (backend = "fs" /\ upPc = "idle")
    => \A id \in DOMAIN byID :
         /\ FsBookByID(id).id = id
         /\ \E i \in EntriesOf(id) : FsAllBooks[i] = FsBookByID(id)

\* C28: no two index entries have the same id, whatever the interleaving of
\* uploads and refreshes: all_books lists no id twice (so its total is the
\* number of distinct books indexed), and no id occurs twice in the books of
\* an author or of a tag.
C28_NoDuplicateIds ==
  /\ NoDup([i \in DOMAIN AllBooks |-> AllBooks[i].id])
  /\ Len(AllBooks) = Cardinality(IdsOf(AllBooks))
  /\ \A n \in Names :
       NoDup([i \in DOMAIN BooksByAuthor(n) |-> BooksByAuthor(n)[i].id])
  /\ \A t \in TagNames :
       NoDup([i \in DOMAIN BooksByTag(t) |-> BooksByTag(t)[i].id])

\* C29: in the fs backend, when a Refresh returns during which delete(id)
\* returned, book_by_id(id) is NotFound and the file of every indexed book
\* is on disk.
C29_RefreshKeepsDeleted ==
  (backend = "fs" /\ ret.op = "refresh" /\ "delete" \in rfConc)
    => /\ \A id \in IDs : lastWrite[id].kind = "delete" => ~FsIsIndexed(id)
       /\ \A id \in DOMAIN byID : disk[FsBookByID(id).path] # Absent

\* C30: in the sqlite backend, the stale-row deletion of a Refresh never
\* deletes the row of a book whose file is on disk, also when the file was
\* uploaded after the pass's directory scan.
C30_RefreshKeepsRowsWithFile ==
  [][(backend = "sqlite" /\ rfPc = "inserted" /\ rfPc' = "idle")
       => \A id \in DOMAIN tBooks :
            disk[tBooks[id].path] # Absent => id \in DOMAIN tBooks']_vars

\* ------------------------------------------------------------------------
\* fs backend: b.mu
\* ------------------------------------------------------------------------

\* The calls that take b.mu in exclusive mode.
Writers == {"UpdateBook", "DeleteBook", "StoreBook", "Refresh"}

\* sync.RWMutex: Lock blocks while anyone holds the mutex, RLock while a
\* writer holds it.
CanLock(m) == m.w = "" /\ m.r = {}
CanRLock(m) == m.w = ""

LockFrame ==
  UNCHANGED <<backend, disk, corrupt, now, ops, fsVars, sqlVars, rfVars, upVars, coverVars,
              bkVars, mgVars, seVars, histVars>>

\* b.mu.Lock() of UpdateBook, DeleteBook and StoreBook.
Lock(c) ==
  /\ backend = "fs"
  /\ c \in Writers \ {"Refresh"}
  /\ c = "StoreBook" => upPc # "idle"
  /\ CanLock(mu)
  /\ mu' = [mu EXCEPT !.w = c]
  /\ ret' = NoRet
  /\ UNCHANGED <<rfOv, txFailed, mfBytes, mfPrev, mgFault, nbVars, cuVars, cbVars>>
  /\ LockFrame

\* b.mu.Unlock() of UpdateBook, DeleteBook (deferred) and StoreBook.
Unlock(c) ==
  /\ c \in Writers \ {"Refresh"}
  /\ mu.w = c
  /\ mu' = [mu EXCEPT !.w = ""]
  /\ ret' = NoRet
  /\ UNCHANGED <<rfOv, txFailed, mfBytes, mfPrev, mgFault, nbVars, cuVars, cbVars>>
  /\ LockFrame

\* The bodies of the writing calls, between Lock and Unlock.
LockedUpdateBook(id, u) == mu.w = "UpdateBook" /\ FsUpdateBook(id, u)
LockedDeleteBook(id) == mu.w = "DeleteBook" /\ FsDeleteBook(id)
LockedStoreIndex == mu.w = "StoreBook" /\ FsStoreIndex

\* A reading call (AllBooks, BookByID, Search, ...): RLock, the read, and
\* the deferred RUnlock.
ReadRLock ==
  /\ backend = "fs"
  /\ "AllBooks" \notin mu.r
  /\ CanRLock(mu)
  /\ mu' = [mu EXCEPT !.r = @ \cup {"AllBooks"}]
  /\ ret' = NoRet
  /\ UNCHANGED <<rfOv, txFailed, mfBytes, mfPrev, mgFault, nbVars, cuVars, cbVars>>
  /\ LockFrame

ReadBooks ==
  /\ "AllBooks" \in mu.r
  /\ Spend
  /\ ret' = Returned("read", TRUE, "", NoBook, NoBook, NoUpdate)
  /\ UNCHANGED <<backend, disk, corrupt, now, fsVars, sqlVars, rfVars, upVars, coverVars,
                 bkVars, mgVars, seVars, concVars, histVars>>

ReadRUnlock ==
  /\ "AllBooks" \in mu.r
  /\ mu' = [mu EXCEPT !.r = @ \ {"AllBooks"}]
  /\ ret' = NoRet
  /\ UNCHANGED <<rfOv, txFailed, mfBytes, mfPrev, mgFault, nbVars, cuVars, cbVars>>
  /\ LockFrame

\* Refresh after its WalkDir: b.mu.RLock().
RefreshRLock ==
  /\ backend = "fs"
  /\ rfPc = "scanned"
  /\ ~rfOv
  /\ "Refresh" \notin mu.r
  /\ CanRLock(mu)
  /\ mu' = [mu EXCEPT !.r = @ \cup {"Refresh"}]
  /\ ret' = NoRet
  /\ UNCHANGED <<rfOv, txFailed, mfBytes, mfPrev, mgFault, nbVars, cuVars, cbVars>>
  /\ LockFrame

\* Refresh: overrides := b.overrides, then b.mu.RUnlock().
RefreshCopyRUnlock ==
  /\ "Refresh" \in mu.r
  /\ rfOv' = TRUE
  /\ mu' = [mu EXCEPT !.r = @ \ {"Refresh"}]
  /\ UNCHANGED <<txFailed, mfBytes, mfPrev, mgFault, nbVars, cuVars, cbVars>>
  /\ ret' = NoRet
  /\ LockFrame

\* Refresh: the loop over the scanned books that reads overrides[...],
\* after RUnlock has returned.
UnlockedRefreshMerge == rfOv /\ FsRefreshMerge

\* Refresh: b.mu.Lock() before the swap.
RefreshLock ==
  /\ backend = "fs"
  /\ rfPc = "merged"
  /\ CanLock(mu)
  /\ mu' = [mu EXCEPT !.w = "Refresh"]
  /\ ret' = NoRet
  /\ UNCHANGED <<rfOv, txFailed, mfBytes, mfPrev, mgFault, nbVars, cuVars, cbVars>>
  /\ LockFrame

LockedRefreshSwap == mu.w = "Refresh" /\ FsRefreshSwap

\* Refresh: b.mu.Unlock() and return; the local `overrides` is gone.
RefreshUnlock ==
  /\ mu.w = "Refresh"
  /\ rfPc = "idle"
  /\ mu' = [mu EXCEPT !.w = ""]
  /\ rfOv' = FALSE
  /\ UNCHANGED <<txFailed, mfBytes, mfPrev, mgFault, nbVars, cuVars, cbVars>>
  /\ ret' = NoRet
  /\ LockFrame

InitLock == Init /\ backend = "fs"

NextLock ==
  \/ \E c \in Writers : Lock(c)
  \/ \E c \in Writers : Unlock(c)
  \/ \E id \in IDs, u \in Updates : LockedUpdateBook(id, u)
  \/ \E id \in IDs : LockedDeleteBook(id)
  \/ \E p \in Paths : StoreWrite(p)
  \/ LockedStoreIndex
  \/ ReadRLock
  \/ ReadBooks
  \/ ReadRUnlock
  \/ FsRefreshScan
  \/ RefreshRLock
  \/ RefreshCopyRUnlock
  \/ UnlockedRefreshMerge
  \/ RefreshLock
  \/ LockedRefreshSwap
  \/ RefreshUnlock

SpecLock == InitLock /\ [][NextLock]_vars

\* The steps that read the override map, and those that change the book
\* vector, the id map, the facet maps or the override map.
ReadsOverrides(c) ==
  \/ c = "Refresh" /\ rfPc = "scanned" /\ rfPc' = "merged"
  \/ c = "UpdateBook" /\ ret'.op = "update"
  \/ c = "StoreBook" /\ ret'.op = "upload" /\ ret'.ok
Mutates == <<heap, blen, byID, authors, tags, overrides>>' # <<heap, blen, byID, authors, tags, overrides>>

\* C31: in the fs backend every read of the override map (Refresh's merge
\* loop included) is made by a call holding b.mu, shared or exclusive, and
\* every change of the book vector, the id map, the facet maps or the
\* override map is made while b.mu is held in exclusive mode.
C31_AccessUnderLock ==
  [][/\ \A c \in Writers : ReadsOverrides(c) => (mu.w = c \/ c \in mu.r)
     /\ Mutates => mu.w # ""]_vars

\* ------------------------------------------------------------------------
\* sqlite backend: transactions
\* ------------------------------------------------------------------------

\* The statements of UpdateBook's transaction, in the order they are
\* executed.
UpdateStmts(id, bk) ==
  <<[k |-> "update", id |-> id, bk |-> bk],
    [k |-> "delAuthors", id |-> id]>>
  \o [i \in DOMAIN bk.authors |->
        [k |-> "insAuthor", id |-> id, name |-> bk.authors[i], pos |-> i - 1, ignore |-> FALSE]]
  \o <<[k |-> "delTags", id |-> id]>>
  \o [i \in DOMAIN bk.tags |-> [k |-> "insTag", id |-> id, tag |-> bk.tags[i], ignore |-> FALSE]]

\* The statements of insertBook's transaction.
InsertStmts(bk) ==
  <<[k |-> "insBook", id |-> bk.id, bk |-> bk]>>
  \o [i \in DOMAIN bk.authors |->
        [k |-> "insAuthor", id |-> bk.id, name |-> bk.authors[i], pos |-> i - 1, ignore |-> TRUE]]
  \o [i \in DOMAIN bk.tags |-> [k |-> "insTag", id |-> bk.id, tag |-> bk.tags[i], ignore |-> TRUE]]

\* tx.Exec of one statement: the tables after it and whether it failed. An
\* INSERT of a row whose primary key is taken fails, an INSERT OR IGNORE
\* of such a row does nothing; a statement that fails changes nothing.
Exec(db, st) ==
  CASE st.k = "update" ->
         [db |-> [db EXCEPT !.books =
                    IF st.id \in DOMAIN db.books
                    THEN [db.books EXCEPT ![st.id] =
                            [@ EXCEPT !.title = st.bk.title, !.isRead = st.bk.isRead,
                                      !.rating = st.bk.rating, !.updatedAt = st.bk.updatedAt]]
                    ELSE db.books],
          err |-> FALSE]
    [] st.k = "insBook" ->
         [db |-> [db EXCEPT !.books =
                    IF st.id \in DOMAIN db.books THEN db.books
                    ELSE Put(db.books, st.id,
                             [path |-> st.bk.path, title |-> st.bk.title, isRead |-> st.bk.isRead,
                              rating |-> st.bk.rating, addedAt |-> st.bk.addedAt,
                              updatedAt |-> st.bk.updatedAt, coverURL |-> st.bk.coverURL,
                              thumbnailURL |-> st.bk.thumbnailURL])],
          err |-> FALSE]
    [] st.k = "delAuthors" ->
         [db |-> [db EXCEPT !.authors = {r \in db.authors : r.book # st.id}], err |-> FALSE]
    [] st.k = "delTags" ->
         [db |-> [db EXCEPT !.tags = {r \in db.tags : r.book # st.id}], err |-> FALSE]
    [] st.k = "insAuthor" ->
         IF \E r \in db.authors : r.book = st.id /\ r.name = st.name
         THEN [db |-> db, err |-> ~st.ignore]
         ELSE [db |-> [db EXCEPT !.authors =
                         @ \cup {[book |-> st.id, name |-> st.name, pos |-> st.pos]}],
               err |-> FALSE]
    [] st.k = "insTag" ->
         IF \E r \in db.tags : r.book = st.id /\ r.tag = st.tag
         THEN [db |-> db, err |-> ~st.ignore]
         ELSE [db |-> [db EXCEPT !.tags = @ \cup {[book |-> st.id, tag |-> st.tag]}],
               err |-> FALSE]

\* A transaction that does not roll back: what its statements wrote stays.
RollbackKeeps(before, written) == written

\* defer tx.Rollback(): the tables are as they were at b.db.Begin().
Rollback(before, written) == before

\* b.db.Begin(), the statements one after the other up to the first that
\* fails, then tx.Commit(), or the deferred tx.Rollback() after a failure.
\* failAt is the statement that fails for a reason outside the tables
\* (the disk, a busy database), Len(stmts) + 1 for the COMMIT, 0 for none.
RunTx(db, stmts, failAt) ==
  LET F[i \in 0..Len(stmts)] ==
        IF i = 0 THEN [db |-> db, failed |-> 0]
        ELSE LET prev == F[i-1]
             IN IF prev.failed # 0 THEN prev
                ELSE IF i = failAt THEN [db |-> prev.db, failed |-> i]
                ELSE LET e == Exec(prev.db, stmts[i])
                     IN IF e.err THEN [db |-> prev.db, failed |-> i]
                        ELSE [db |-> e.db, failed |-> 0]
      w == F[Len(stmts)]
      failed == IF w.failed # 0 THEN w.failed
                ELSE IF failAt = Len(stmts) + 1 THEN failAt ELSE 0
  IN [db |-> IF failed # 0 THEN Rollback(db, w.db) ELSE w.db, failed |-> failed]

\* Updates whose author or tag list names a value twice, next to Updates.
TxUpdates ==
  Updates \cup
  { [title |-> Some("Z"), authors |-> Some(<<"z", "z">>), tags |-> None,
     isRead |-> None, rating |-> None],
    [title |-> None, authors |-> Some(<<"x">>), tags |-> Some(<<"t", "u", "t">>),
     isRead |-> Some(TRUE), rating |-> None] }

\* The longest transaction has MaxStmts statements, the COMMIT included.
MaxStmts == 7
FailAts == 0..MaxStmts

\* sqlite UpdateBook, its transaction statement by statement.
TxUpdateBook(id, u, failAt) ==
  /\ backend = "sqlite"
  /\ id \in DOMAIN tBooks
  /\ Tick
  /\ Spend
  /\ LET prev == SqlBookByID(id)
         bk == ApplyUpdate(prev, u, now + 1)
         tx == RunTx(DB, UpdateStmts(id, bk), failAt)
     IN /\ tBooks' = tx.db.books
        /\ tAuthors' = tx.db.authors
        /\ tTags' = tx.db.tags
        /\ txFailed' = tx.failed
        /\ ret' = IF tx.failed # 0
                  THEN Returned("update", FALSE, id, NoBook, prev, u)
                  ELSE Returned("update", TRUE, id, bk, prev, u)
        /\ OpHist("update", id, IF tx.failed # 0 THEN NoWrite ELSE Write("update", u))
  /\ UNCHANGED <<backend, mu, rfOv, mfBytes, mfPrev, mgFault, nbVars, cuVars, cbVars, bkVars, mgVars, seVars, coverVars, disk, corrupt, fsVars, rfVars,
                 upVars, upDuringRf>>

\* sqlite StoreBook after the rename: parse, then insertBook statement by
\* statement.
TxStoreIndex(failAt) ==
  /\ backend = "sqlite"
  /\ upPc = "renamed"
  /\ Tick
  /\ Keep
  /\ LET parsed == Parse(upPath, disk[upPath], now + 1)
         id == PathToID(upPath)
     IN IF parsed = None
        THEN /\ ret' = Returned("upload", FALSE, id, NoBook, NoBook, NoUpdate)
             /\ upErr' = "parse epub"
             /\ txFailed' = 0
             /\ OpHist("upload", "", NoWrite)
             /\ UNCHANGED <<sqlVars, upDuringRf>>
        ELSE LET tx == RunTx(DB, InsertStmts(Val(parsed)), failAt)
             IN /\ tBooks' = tx.db.books
                /\ tAuthors' = tx.db.authors
                /\ tTags' = tx.db.tags
                /\ txFailed' = tx.failed
                /\ IF tx.failed # 0
                   THEN /\ ret' = Returned("upload", FALSE, id, NoBook, NoBook, NoUpdate)
                        /\ upErr' = "index uploaded book"
                        /\ OpHist("upload", "", NoWrite)
                        /\ UNCHANGED upDuringRf
                   ELSE /\ ret' = Returned("upload", TRUE, id, Val(parsed), NoBook, NoUpdate)
                        /\ upErr' = ""
                        /\ upDuringRf' = IF rfPc = "idle" THEN upDuringRf
                                         ELSE upDuringRf \cup {id}
                        /\ OpHist("upload", id, Write("upload", NoUpdate))
  /\ upPc' = "idle"
  /\ upPath' = ""
  /\ tmpFiles' = Deferred(tmpFiles, TempName)
  /\ UNCHANGED <<backend, mu, rfOv, mfBytes, mfPrev, mgFault, nbVars, cuVars, cbVars, bkVars, mgVars, seVars, coverVars, disk, corrupt, fsVars, rfVars,
                 upData>>

InitTx == Init /\ backend = "sqlite"

NextTx ==
  \/ \E id \in IDs, u \in TxUpdates, f \in FailAts : TxUpdateBook(id, u, f)
  \/ \E p \in Paths : StoreWrite(p)
  \/ \E f \in FailAts : TxStoreIndex(f)

SpecTx == InitTx /\ [][NextTx]_vars

\* C32: in the sqlite backend, when a statement of the transaction of
\* UpdateBook or insertBook fails (or its COMMIT does), the book rows, the
\* author rows and the tag rows are after the call what they were before
\* it, and the call returns an error.
C32_WriteAtomic ==
  [][(ret'.op \in {"update", "upload"} /\ txFailed' # 0)
       => (sqlVars' = sqlVars /\ ~ret'.ok)]_vars

\* An UpdateBook whose transaction failed after it had rewritten the book
\* row and deleted the author rows.
C32_Witness ==
  /\ ret.op = "update" /\ ~ret.ok /\ txFailed > 2
  /\ ret.prev.title # "Z" /\ Present(ret.u.title)
  /\ ret.prev.authors # <<>>

\* ------------------------------------------------------------------------
\* fs backend: the process stops while .metadata.json is written
\* ------------------------------------------------------------------------

\* os.WriteFile opens with O_TRUNC and then writes: a process that stops in
\* it leaves the file empty or with the first part of the document.
TornWrites == {"none", "part"}

\* A process that stopped makes no further call: the next step is the next
\* start of the process.
Running == ret.op # "stop"

\* The process stops in the os.WriteFile of UpdateBook's saveOverrides.
StopInUpdateSave(id, u, written) ==
  /\ backend = "fs"
  /\ id \in DOMAIN byID
  /\ Running
  /\ mfBytes = "all"
  /\ Spend
  /\ LET old == IF id \in DOMAIN overrides THEN overrides[id] ELSE NoOverride
         ovs == Put(overrides, id, MergeUpdateIntoOverride(old, u))
     IN /\ metadataFile' = saveOverrides(ovs)
        /\ mfPrev' = metadataFile
        /\ mfBytes' = written
  /\ ret' = Returned("stop", FALSE, id, NoBook, NoBook, u)
  /\ Still
  /\ UNCHANGED <<backend, disk, corrupt, heap, blen, byID, authors, tags, overrides, sqlVars,
                 rfVars, upVars, coverVars, bkVars, mgVars, seVars, mu, rfOv, txFailed, mgFault, nbVars, cuVars, cbVars, histVars>>

\* The process stops in the os.WriteFile of DeleteBook's saveOverrides: the
\* book's file and cover are removed already.
StopInDeleteSave(id, written) ==
  /\ backend = "fs"
  /\ id \in DOMAIN byID
  /\ Running
  /\ mfBytes = "all"
  /\ Spend
  /\ disk' = [disk EXCEPT ![Deref(byID[id]).path] = Absent]
  /\ corrupt' = corrupt \ {Deref(byID[id]).path}
  /\ covers' = RemoveCover(covers, id, ".jpg")
  /\ metadataFile' = saveOverrides(Drop(overrides, id))
  /\ mfPrev' = metadataFile
  /\ mfBytes' = written
  /\ ret' = Returned("stop", FALSE, id, NoBook, NoBook, NoUpdate)
  /\ Still
  /\ UNCHANGED <<backend, heap, blen, byID, authors, tags, overrides, sqlVars,
                 rfVars, upVars, ucPc, ucLast, bkVars, mgVars, seVars, mu, rfOv, txFailed, mgFault, nbVars, cuVars, cbVars, histVars>>

RunningUpdateBook(id, u) == Running /\ FsUpdateBook(id, u)
RunningDeleteBook(id) == Running /\ FsDeleteBook(id)

InitStop == Init /\ backend = "fs"

NextStop ==
  \/ \E id \in IDs, u \in Updates : RunningUpdateBook(id, u)
  \/ \E id \in IDs : RunningDeleteBook(id)
  \/ \E id \in IDs, u \in Updates, w \in TornWrites : StopInUpdateSave(id, u, w)
  \/ \E id \in IDs, w \in TornWrites : StopInDeleteSave(id, w)
  \/ FsRestart

SpecStop == InitStop /\ [][NextStop]_vars

\* C33: when the process stopped while .metadata.json was rewritten, the
\* next start of the process reads a complete document: the overrides it
\* loads are those of the version before the rewrite or those of the
\* version being written.
C33_SaveAtomic ==
  (ret.op = "restart" /\ mfBytes # "all") => overrides \in {mfPrev, metadataFile}

\* ------------------------------------------------------------------------
\* sqlite New: a statement of the migration fails
\* ------------------------------------------------------------------------

\* The db.Exec of migrateSchema that fails for a reason outside the schema
\* (the disk, a locked database): the CREATE statements of migration1, its
\* ALTER TABLE statements, or the PRAGMA user_version that follows it.
MigrateFaults == {"none", "create", "alter", "pragma"}

\* migration1 with a failing statement: a failed CREATE is returned and
\* leaves the store as it was, failed ALTERs add no column and are
\* ignored like "duplicate column name".
migration1Faulty(cols, books, fault) ==
  IF fault = "create" THEN [columns |-> cols, books |-> books, err |-> TRUE]
  ELSE LET created == IF cols = {} THEN AllColumns ELSE cols
           added == IF fault = "alter" THEN {} ELSE AlterColumns \ created
       IN [columns |-> created \cup added,
           books |-> [id \in DOMAIN books |-> WithDefaults(books[id], added)],
           err |-> FALSE]

\* New up to the return of migrateSchema, with a failing statement: on an
\* error New closes the database and returns the error.
OpenMigrateFaulty(fault) ==
  /\ backend = "sqlite"
  /\ dbPc = "closed"
  /\ Spend
  /\ IF Pending(1, userVersion)
     THEN LET m == migration1Faulty(columns, tBooks, fault)
              failed == m.err \/ fault = "pragma"
          IN /\ columns' = m.columns
             /\ tBooks' = m.books
             /\ userVersion' = IF failed THEN userVersion ELSE 1
             /\ applied' = IF m.err THEN applied ELSE applied + 1
             /\ mgFrom' = Some([version |-> userVersion, columns |-> columns,
                                books |-> tBooks, authors |-> tAuthors, tags |-> tTags])
             /\ mgFault' = fault
             /\ dbPc' = IF failed THEN "closed" ELSE "migrated"
             /\ ret' = Returned("migrate", ~failed, "", NoBook, NoBook, NoUpdate)
     ELSE /\ fault = "none"
          /\ mgFrom' = None
          /\ mgFault' = "none"
          /\ dbPc' = "migrated"
          /\ ret' = Returned("migrate", TRUE, "", NoBook, NoBook, NoUpdate)
          /\ UNCHANGED <<columns, tBooks, userVersion, applied>>
  /\ OpHist("open", "", NoWrite)
  /\ UNCHANGED <<backend, mu, rfOv, txFailed, mfBytes, mfPrev, nbVars, cuVars, cbVars, bkVars, seVars, coverVars, disk,
                 corrupt, now, fsVars, tAuthors, tTags, rfVars, upVars, upDuringRf>>

\* New, second half, on a table with every column.
QueryableOpenRefresh == Queryable /\ OpenRefresh

\* New, second half, on a table that lacks a column: every insertBook fails
\* with "no such column" and is skipped, the stale rows are deleted.
UnqueryableOpenRefresh ==
  /\ backend = "sqlite"
  /\ dbPc = "migrated"
  /\ ~Queryable
  /\ Keep
  /\ Still
  /\ LET inDB == {<<tBooks[id].path, id>> : id \in DOMAIN tBooks}
         db == DeleteRows(DB, Stale(OnDisk, inDB))
     IN /\ tBooks' = db.books
        /\ tAuthors' = db.authors
        /\ tTags' = db.tags
  /\ dbPc' = "open"
  /\ ret' = Returned("open", TRUE, "", NoBook, NoBook, NoUpdate)
  /\ OpHist("open", "", NoWrite)
  /\ UNCHANGED <<backend, concVars, bkVars, seVars, coverVars, disk, corrupt, fsVars, rfVars, upVars,
                 upDuringRf, userVersion, columns, applied, mgFrom>>

\* UpdateBook on the opened store: its BookByID fails with "no such column"
\* on a table that lacks one.
QueryableUpdateBook(id, u) == Queryable /\ OpenedUpdateBook(id, u)

NextMigrateFaults ==
  \/ \E fault \in MigrateFaults : OpenMigrateFaulty(fault)
  \/ QueryableOpenRefresh
  \/ UnqueryableOpenRefresh
  \/ Close
  \/ \E id \in IDs, u \in Updates : QueryableUpdateBook(id, u)

SpecMigrateFaults == InitMigrate /\ [][NextMigrateFaults]_vars

DayLen == 2
MaxTicks == 5

\* A Backup call (VACUUM INTO and pruning) takes less than a day.
Durations == 0..(DayLen - 1)

\* A loop that sleeps until the midnight that began the current day.
NextMidnightToday(w) == (w \div DayLen) * DayLen

\* time.Date(now.Year(), now.Month(), now.Day()+1, 0, 0, 0, 0, loc): the
\* first midnight after now.
NextMidnight(w) == (w \div DayLen + 1) * DayLen

NightlyFrame ==
  UNCHANGED <<backend, disk, corrupt, now, fsVars, sqlVars, rfVars, upVars, coverVars,
              mgVars, seVars, mu, rfOv, txFailed, mfBytes, mfPrev, mgFault, cuVars, cbVars, ret, histVars>>

\* Top of the loop body: now, next, and the call of time.Sleep.
NightlySleep ==
  /\ backend = "sqlite"
  /\ nbPc = "top"
  /\ nbNext' = NextMidnight(wall)
  /\ nbSlept' = IF NextMidnight(wall) > wall THEN NextMidnight(wall) - wall ELSE 0
  /\ nbPc' = "sleep"
  /\ UNCHANGED <<wall, nbCalls, ops, bkVars>>
  /\ NightlyFrame

\* Time passes while the loop sleeps.
NightlyTick ==
  /\ nbPc = "sleep"
  /\ wall < nbNext
  /\ wall < MaxTicks
  /\ wall' = wall + 1
  /\ UNCHANGED <<nbPc, nbNext, nbSlept, nbCalls, ops, bkVars>>
  /\ NightlyFrame

\* time.Sleep has returned: bu.Backup(backupDir, keep), which takes `took`
\* ticks, and the log line; the loop body starts again whatever Backup
\* returned.
NightlyBackup(keep, listFails, took) ==
  /\ nbPc = "sleep"
  /\ wall >= nbNext
  /\ wall + took <= MaxTicks
  /\ BackupCall(keep, FirstBackup + (wall \div DayLen) - 1, listFails)
  /\ wall' = wall + took
  /\ nbCalls' = Append(nbCalls, [at |-> wall, failed |-> bkRet'.err # ""])
  /\ nbPc' = "top"
  /\ UNCHANGED <<nbNext, nbSlept>>
  /\ NightlyFrame

InitNightly == Init /\ backend = "sqlite" /\ disk = [p \in Paths |-> Absent]

NextNightly ==
  \/ NightlySleep
  \/ NightlyTick
  \/ \E keep \in Keeps, listFails \in BOOLEAN, took \in Durations :
       NightlyBackup(keep, listFails, took)

SpecNightly == InitNightly /\ [][NextNightly]_vars

\* The goroutine of runNightlyBackup keeps running and time passes.
SpecNightlyFair == SpecNightly /\ WF_vars(NextNightly)

Midnights == {m \in 1..MaxTicks : m % DayLen = 0}
CalledAt(m) == \E i \in DOMAIN nbCalls : nbCalls[i].at = m

TempOf(c) == IF c = 1 THEN ".upload-1.tmp" ELSE ".upload-2.tmp"

\* The streams of the two calls: a readable EPUB or PDF, or other bytes.
UploadStreams == {"good", "bad"}

ConcFrame ==
  UNCHANGED <<backend, rfVars, upPc, upPath, upData, upErr, coverVars, bkVars, mgVars, seVars,
              mu, rfOv, txFailed, mfBytes, mfPrev, mgFault, nbVars, cbVars, histVars>>

\* StoreBook from its start to os.CreateTemp: the extension is accepted;
\* os.Stat(destPath) finds a file and the call returns, or the temporary
\* file is created.
ConcStoreStat(c, p, data) ==
  /\ cuPc[c] = "idle"
  /\ Still
  /\ Spend
  /\ cuPath' = [cuPath EXCEPT ![c] = p]
  /\ cuData' = [cuData EXCEPT ![c] = data]
  /\ IF Exists(disk, p)
     THEN /\ cuRet' = [cuRet EXCEPT ![c] = "already exists"]
          /\ ret' = Returned("upload", FALSE, PathToID(p), NoBook, NoBook, NoUpdate)
          /\ UNCHANGED <<cuPc, tmpFiles>>
     ELSE /\ cuRet' = [cuRet EXCEPT ![c] = ""]
          /\ cuPc' = [cuPc EXCEPT ![c] = "temp"]
          /\ tmpFiles' = tmpFiles \cup {TempOf(c)}
          /\ ret' = NoRet
  /\ UNCHANGED <<disk, corrupt, destBy, fsVars, sqlVars>>
  /\ ConcFrame

\* io.Copy, tmp.Close and os.Rename(tmpPath, destPath): the rename replaces
\* whatever is at destPath.
ConcStoreRename(c) ==
  /\ cuPc[c] = "temp"
  /\ Tick
  /\ Keep
  /\ disk' = [disk EXCEPT ![cuPath[c]] = now + 1]
  /\ corrupt' = IF cuData[c] = "good" THEN corrupt \ {cuPath[c]}
                ELSE corrupt \cup {cuPath[c]}
  /\ destBy' = [destBy EXCEPT ![cuPath[c]] = c]
  /\ tmpFiles' = tmpFiles \ {TempOf(c)}
  /\ cuPc' = [cuPc EXCEPT ![c] = "renamed"]
  /\ ret' = NoRet
  /\ UNCHANGED <<cuPath, cuData, cuRet, fsVars, sqlVars>>
  /\ ConcFrame

\* What the call returns after the parse of destPath.
ConcReturn(c, parsed) ==
  /\ cuRet' = [cuRet EXCEPT ![c] = IF parsed = None THEN "parse epub" ELSE "ok"]
  /\ ret' = Returned("upload", parsed # None, PathToID(cuPath[c]),
                     IF parsed = None THEN NoBook ELSE Val(parsed), NoBook, NoUpdate)
  /\ cuPc' = [cuPc EXCEPT ![c] = "idle"]
  /\ UNCHANGED <<cuPath, cuData, destBy, disk, corrupt, tmpFiles>>

\* fs StoreBook after the rename: parse, then prepend under b.mu.Lock().
ConcFsStoreIndex(c) ==
  /\ backend = "fs"
  /\ cuPc[c] = "renamed"
  /\ Tick
  /\ Keep
  /\ LET parsed == Parse(cuPath[c], disk[cuPath[c]], now + 1)
     IN /\ ConcReturn(c, parsed)
        /\ IF parsed = None
           THEN UNCHANGED fsVars
           ELSE LET book == applyOverride(Val(parsed), overrides)
                    h2 == <<(<<book>> \o FsAllBooks)>> \o heap
                    moved == [x \in DOMAIN byID |->
                                [arr |-> byID[x].arr + 1, idx |-> byID[x].idx]]
                    n == Norm(h2, blen + 1, Put(moved, book.id, [arr |-> 1, idx |-> 1]))
                IN /\ heap' = n.heap
                   /\ byID' = n.byID
                   /\ blen' = blen + 1
                   /\ authors' = AddToBuckets(authors, book.authors, book.id)
                   /\ tags' = AddToBuckets(tags, book.tags, book.id)
                   /\ UNCHANGED <<overrides, metadataFile>>
  /\ UNCHANGED sqlVars
  /\ ConcFrame

\* sqlite StoreBook after the rename: parse, then insertBook, whose
\* INSERT OR IGNORE returns no error for a row that exists.
ConcSqlStoreIndex(c) ==
  /\ backend = "sqlite"
  /\ cuPc[c] = "renamed"
  /\ Tick
  /\ Keep
  /\ LET parsed == Parse(cuPath[c], disk[cuPath[c]], now + 1)
     IN /\ ConcReturn(c, parsed)
        /\ IF parsed = None
           THEN UNCHANGED sqlVars
           ELSE LET db == insertBook(DB, Val(parsed))
                IN /\ tBooks' = db.books
                   /\ tAuthors' = db.authors
                   /\ tTags' = db.tags
  /\ UNCHANGED fsVars
  /\ ConcFrame

NextConcStore ==
  \/ \E c \in Callers, p \in Paths, data \in UploadStreams : ConcStoreStat(c, p, data)
  \/ \E c \in Callers : ConcStoreRename(c)
  \/ \E c \in Callers : ConcFsStoreIndex(c)
  \/ \E c \in Callers : ConcSqlStoreIndex(c)

SpecConcStore == Init /\ [][NextConcStore]_vars

\* C37: of the uploads to one destination at most one has returned success,
\* and the destination holds the bytes of the upload that returned success.
C37_OneUploadWins ==
  /\ \A c, d \in Callers :
       (cuRet[c] = "ok" /\ cuRet[d] = "ok" /\ cuPath[c] = cuPath[d]) => c = d
  /\ \A c \in Callers : cuRet[c] = "ok" => destBy[cuPath[c]] = c

\* ------------------------------------------------------------------------
\* sqlite UpdateBook: two calls at once
\* ------------------------------------------------------------------------

ConcUpdateFrame ==
  UNCHANGED <<backend, disk, corrupt, fsVars, rfVars, upVars, coverVars, bkVars, mgVars, seVars,
              mu, rfOv, txFailed, mfBytes, mfPrev, mgFault, nbVars, cuVars, histVars>>

\* UpdateBook up to bk.UpdatedAt = time.Now(): b.BookByID(id), outside any
\* transaction, and the update applied to the copy it returned.  Each
\* request makes one call.
ConcUpdateRead(c, id, u) ==
  /\ backend = "sqlite"
  /\ cbPc[c] = "idle" /\ cbArg[c] = None
  /\ Tick
  /\ Spend
  /\ IF id \in DOMAIN tBooks
     THEN /\ cbPc' = [cbPc EXCEPT ![c] = "read"]
          /\ cbArg' = [cbArg EXCEPT ![c] =
                         Some([id |-> id, u |-> u,
                               bk |-> ApplyUpdate(SqlBookByID(id), u, now + 1)])]
          /\ ret' = NoRet
          /\ UNCHANGED cbRet
     ELSE /\ cbArg' = [cbArg EXCEPT ![c] = Some([id |-> id, u |-> u, bk |-> NoBook])]
          /\ cbRet' = [cbRet EXCEPT ![c] = Some("not found")]
          /\ ret' = Returned("update", FALSE, id, NoBook, NoBook, u)
          /\ UNCHANGED cbPc
  /\ UNCHANGED sqlVars
  /\ ConcUpdateFrame

\* UpdateBook from b.db.Begin() to tx.Commit(): every column of the row and
\* all author and tag rows are written from the copy.
ConcUpdateWrite(c) ==
  /\ cbPc[c] = "read"
  /\ Still
  /\ Keep
  /\ LET a == Val(cbArg[c])
         tx == RunTx(DB, UpdateStmts(a.id, a.bk), 0)
     IN /\ tBooks' = tx.db.books
        /\ tAuthors' = tx.db.authors
        /\ tTags' = tx.db.tags
        /\ cbRet' = [cbRet EXCEPT ![c] = Some("ok")]
        /\ ret' = Returned("update", TRUE, a.id, a.bk, NoBook, a.u)
  /\ cbPc' = [cbPc EXCEPT ![c] = "idle"]
  /\ UNCHANGED cbArg
  /\ ConcUpdateFrame

NextConcUpdate ==
  \/ \E c \in Callers, id \in IDs, u \in Updates : ConcUpdateRead(c, id, u)
  \/ \E c \in Callers : ConcUpdateWrite(c)

InitConcUpdate == Init /\ backend = "sqlite"

SpecConcUpdate == InitConcUpdate /\ [][NextConcUpdate]_vars

\* The fields an update sets, and whether the book has the values it sets
\* (author and tag lists compared by their names, in whatever order the
\* store returns them).
FieldsOf(u) ==
  {f \in {"title", "authors", "tags", "isRead", "rating"} : Present(u[f])}
HasValuesOf(bk, u) ==
  \A f \in FieldsOf(u) :
    IF f \in {"authors", "tags"} THEN Range(bk[f]) = Range(Val(u[f]))
    ELSE bk[f] = Val(u[f])

\* C38: when two update_book calls on one book that set different fields
\* have both returned success, the stored book holds the values of both.
C38_BothUpdatesKept ==
  \A c, d \in Callers :
    (/\ c # d
     /\ cbRet[c] = Some("ok") /\ cbRet[d] = Some("ok")
     /\ Val(cbArg[c]).id = Val(cbArg[d]).id
     /\ FieldsOf(Val(cbArg[c]).u) \cap FieldsOf(Val(cbArg[d]).u) = {})
      => /\ HasValuesOf(SqlBookByID(Val(cbArg[c]).id), Val(cbArg[c]).u)
         /\ HasValuesOf(SqlBookByID(Val(cbArg[c]).id), Val(cbArg[d]).u)

\* ------------------------------------------------------------------------
\* sqlite UpdateCover: an id without a row
\* ------------------------------------------------------------------------

\* C39: update_cover for an id that is not in the index creates, replaces
\* and removes no file of the covers directory, and returns an error.
C39_UnknownCoverUntouched ==
  [][\A c \in Callers :
       ucPc'[c] # ucPc[c]
         => LET a == IF ucPc[c] # None THEN Val(ucPc[c]) ELSE Val(ucPc'[c])
            IN a.id \notin DOMAIN tBooks
                 => /\ covers' = covers
                    /\ ucPc'[c] = None => ~ret'.ok]_vars

\* ------------------------------------------------------------------------
\* Facet listings after the last book of a name is gone
\* ------------------------------------------------------------------------

\* C40: when an update or a delete has returned, every name that authors()
\* or tags() lists is a name of at least one indexed book.
C40_ListedNamesAreIndexed ==
  (ret.op \in {"update", "delete"} /\ ret.ok)
    => /\ \A l \in Authors : Range(l) \subseteq IndexedAuthors
       /\ \A l \in Tags : Range(l) \subseteq IndexedTags

====
